---- MODULE Spec2Model ----
(***************************************************************************)
(* State-machine model of the server manager: NetworkManager (port         *)
(* allocation), ServerController (instance registry, process supervision,  *)
(* health checks, proxy registration) and PoolManager (warm pool).         *)
(*                                                                         *)
(* Every async method is split at its awaits: one action per run of        *)
(* synchronous code between two suspension points.  Several calls of the   *)
(* same method may be in flight at once, as on the Node.js event loop.     *)
(***************************************************************************)
EXTENDS Integers, Sequences, FiniteSets, TLC

(***************************************************************************)
(* Bounds of the model                                                     *)
(***************************************************************************)
\* number of concurrent callers of NetworkManager.allocatePort
MaxCallers == 2
\* ports of NetworkManager.portRange beyond its first one (20 in the code)
NetSpan == 1
\* ports of the registry's range beyond its first one (100 in the code)
PortSpan == 1
\* server objects ever constructed (one per creation call)
MaxObjs == 2
\* concurrent stopDynamicServer calls
MaxStops == 1
\* overlapping register calls for one server
MaxRegCalls == 2
\* times the proxy goes down
MaxProxyDowns == 2
\* instances followed through registration with the proxy
MaxProxyObjs == 1
\* instances followed through their health checks
MaxHealthObjs == 1
\* failed health checks in a row
MaxFailed == 4
\* restartServer calls per instance
MaxRestartCalls == 2
\* handleServerRelease calls of one id awaiting resetServer
MaxReleases == 2
\* instances followed through the joins and quits of their players
MaxIdleObjs == 1
\* players
MaxPlayers == 2

\* server objects the specification of fair stops follows
MaxStopObjs == 1

\* creation handles the specification of the signal handlers follows
MaxShutObjs == 1

\* runs of the periodic pool check
MaxSweeps == 2

\* instances of the warm pools that scaling down is applied to
MaxDownWarm == 7

(***************************************************************************)
(* Program constants                                                       *)
(***************************************************************************)
\* dynamicServers.startPort, the first port of NetworkManager.portRange
NetStart == 25601

NetEnd == NetStart + NetSpan

NetPorts == NetStart..NetEnd

\* ports.rangeStart, the first port getAvailablePort tries
RangeStart == 25600

RangeEnd == RangeStart + PortSpan

\* one server object per creation call; the object is the call's handle
Objs == 1..MaxObjs

\* `undefined`: no object under that key of a registry map
NoObj == 0

\* the random ids generateServerId draws, in the order it draws them: five
\* random characters out of 36, so no draw repeats an earlier one
IdNames == <<"a", "b", "c", "d", "e", "f">>

Ids == {IdNames[h] : h \in Objs}

NoId == "-"

\* the names of the configured static servers
StaticNames == {"hub"}

\* the keys of the registry maps: ids of dynamic servers, names of static
\* ones
Keys == Ids \cup StaticNames

\* servers.hub.port of the default configuration
StaticPort == 25501

Stoppers == 1..MaxStops
\* the handles followed through registration with the proxy
ProxyObjs == 1..MaxProxyObjs
\* the handles followed through their health checks
HealthObjs == 1..MaxHealthObjs
\* the handles followed through the joins and quits of their players
IdleObjs == 1..MaxIdleObjs
\* the names of the players
PlayerNames == 1..MaxPlayers

\* the server objects of the specification of fair stops
StopObjs == 1..MaxStopObjs

\* callers of allocatePort: direct ones, then one per creation call
Callers == 1..(MaxCallers + MaxObjs)

DirectCallers == 1..MaxCallers

CallerOf(h) == MaxCallers + h

\* allocatePort's "return null"
NoPort == 0

VARIABLES
    \* NetworkManager
    allocatedPorts,   \* this.allocatedPorts
    allocPc,          \* per allocatePort call: "idle", "probe" (awaiting isPortAvailable), "returned"
    allocPort,        \* per allocatePort call: the loop variable `port`, then the value returned
    holders,          \* history: port -> allocatePort calls that returned it since its last release
    \* ServerController
    servers,          \* this.servers: id -> server object
    server,           \* the server objects (fields of createServer's literal)
    proc,             \* the OS process behind server.process: "none", "running", "killed", "exited"
    listening,        \* whether that process has bound its port
    cpc,              \* per creation call: where the call is suspended
    ckind,            \* per creation call: "create" (createDynamicServer) or "start" (startDynamicServer)
    registeredWithProxy, \* this.registeredWithProxy: the regKeys <<id, port>>
    proxy,            \* this.proxy: "null", or its status "starting" / "ready"
    connected,        \* redis.connected
    regInflight,      \* per server: registerServerWithProxy calls awaiting their publish
    velInflight,      \* per server: registerWithVelocity calls awaiting their publish
    told,             \* history: the proxy, ready, was sent a register message for the server
    lost,             \* history: "down" once the proxy has gone with the server's registration,
                      \* "back" once it is ready again, "no" once a register message is sent
    regMsgs,          \* history: register messages published for the server since its last unregistration
    regOutcome,       \* history: what the last register call under a ready proxy did
    proxyDowns,       \* history: times the proxy shut down or exited
    stopPc,           \* per stopDynamicServer call: where the call is suspended
    stopObj,          \* per stopDynamicServer call: its `server` (the object found at the call)
    stopSrv,          \* per stopDynamicServer call: the `server` of the stopServer it runs
    stopLog,          \* history: the steps each stopDynamicServer call has completed, in order
    stopReg,           \* history: the call began on a registered instance with a running process
    hpc,              \* per server: its health-check timer: "off", "idle" (armed), "probe"
    failed,           \* per server: healthChecks.failed
    consec,           \* history: failed checks in a row, as they happened
    restartCalls,     \* history: restartServer calls made for the server
    restarts,         \* history: restarts (stop then start) performed for the server
    warmPool,         \* PoolManager.warmPool: the ids in insertion order
    reservedServers,  \* the keys of PoolManager.reservedServers
    relInflight,      \* per id: handleServerRelease calls awaiting resetServer
    lastGet,          \* the last getWarmServer call: game type, result, addServerToPool calls started for it, handleServerRequest awaiting assignServer
    players,          \* per server: server.players
    emptyTimeout,     \* per server: server.emptyTimeout holds a timer handle
    pending,          \* per server: empty-server timers set and neither fired nor cleared
    joined,           \* history: a player joined since the empty-server timer was last set
    idleStopped,      \* history: an empty-server timer has called stopDynamicServer for the server
    staticServers,    \* this.staticServers: name -> server object
    restartTimer,     \* per server: auto-restart timers of handleServerExit not yet fired
    stopCalls,        \* history: per id, what the last stop call for the id found
    crashSeen,        \* history: per server, serverCrash was emitted at the exit of its process
    scaling,          \* PoolManager.scaling: a checkAndScale call is in flight
    cas,              \* the checkAndScale call in flight: position, loop of scaleUp, history
    stm,              \* the scaleToMin call: position, loop, history
    rangeEnd,         \* ports.rangeEnd of the configuration
    poolConfig,       \* the pool section of the configuration
    idDraw,           \* per creation call: the id Math.random makes generateServerId draw first
    downPool,         \* a warm pool of ready instances, front first: whether each is reserved
    downRemoved,      \* the positions of downPool that checkAndScale removed
    downDone,         \* checkAndScale has been applied to downPool
    sd,               \* the two SIGINT/SIGTERM handlers: positions, loops, exit code
    sweep             \* history: the checkPoolHealth runs so far, the warm ids the last found unhealthy

netVars == <<allocatedPorts, allocPc, allocPort, holders>>

regVars == <<servers, server, proc, listening, cpc, ckind>>

proxyVars == <<registeredWithProxy, proxy, connected, regInflight, velInflight,
               told, lost, regMsgs, regOutcome, proxyDowns>>

stopVars == <<stopPc, stopObj, stopSrv, stopLog, stopReg>>

healthVars == <<hpc, failed, consec, restartCalls, restarts>>

\* the pool's state but for warmPool
poolRest == <<reservedServers, relInflight, lastGet>>

poolVars == <<warmPool, reservedServers, relInflight, lastGet>>

idleVars == <<players, emptyTimeout, pending, joined, idleStopped>>

staticVars == <<staticServers, restartTimer, stopCalls, crashSeen>>

scaleVars == <<scaling, cas, stm>>

configVars == <<rangeEnd, poolConfig, idDraw>>

downVars == <<downPool, downRemoved, downDone>>

shutVars == <<sd>>

sweepVars == <<sweep>>

\* the ports of the registry's range
RegPorts == RangeStart..rangeEnd

vars == <<allocatedPorts, allocPc, allocPort, holders,
          servers, server, proc, listening, cpc, ckind,
          registeredWithProxy, proxy, connected, regInflight, velInflight,
          told, lost, regMsgs, regOutcome, proxyDowns,
          stopPc, stopObj, stopSrv, stopLog, stopReg,
          hpc, failed, consec, restartCalls, restarts,
          warmPool, reservedServers, relInflight, lastGet,
          players, emptyTimeout, pending, joined, idleStopped,
          staticServers, restartTimer, stopCalls, crashSeen,
          scaling, cas, stm, rangeEnd, poolConfig, idDraw, downPool, downRemoved, downDone, sd, sweep>>

\* No continuation of a handleServerRelease call waits in the microtask
\* queue: resetServer awaits nothing but sendCommand, which does no I/O, so
\* such a call resumes before any timer, process or I/O event is handled;
\* only calls made in the same turn come between.
MacroTask == (\A i \in Ids : relInflight[i] = 0) /\ ~lastGet.req

(***************************************************************************)
(* NetworkManager                                                          *)
(***************************************************************************)
\* The loop head of allocatePort: the first port at or after `from` that is
\* not in allocatedPorts, NoPort when the loop runs off the range.
NextCandidate(from) ==
    LET cands == {p \in NetPorts : p >= from /\ p \notin allocatedPorts}
    IN  IF cands = {} THEN NoPort
        ELSE CHOOSE p \in cands : \A q \in cands : p <= q

\* What the bind-and-close probe of isPortAvailable can answer for a port:
\* FALSE when a server process of ours listens on it, else the OS decides
\* (another process of the host may hold the port at that instant).
isPortAvailable(p) ==
    IF \E h \in Objs : listening[h] /\ server[h].port = p
    THEN {FALSE}
    ELSE BOOLEAN

\* allocatePort, from the call to the first await (or to "return null")
AllocBegin(c) ==
    /\ allocPc[c] = "idle"
    /\ LET p == NextCandidate(NetStart)
       IN  /\ allocPc' = [allocPc EXCEPT ![c] = IF p = NoPort THEN "returned" ELSE "probe"]
           /\ allocPort' = [allocPort EXCEPT ![c] = p]
    /\ UNCHANGED <<allocatedPorts, holders>>

\* allocatePort, resumed with the probe's answer
AllocProbed(c) ==
    /\ MacroTask
    /\ allocPc[c] = "probe"
    /\ \E available \in isPortAvailable(allocPort[c]) :
         IF available
         THEN /\ allocatedPorts' = allocatedPorts \cup {allocPort[c]}
              /\ holders' = [holders EXCEPT ![allocPort[c]] = @ + 1]
              /\ allocPc' = [allocPc EXCEPT ![c] = "returned"]
              /\ UNCHANGED allocPort
         ELSE LET p == NextCandidate(allocPort[c] + 1)
              IN  /\ allocPc' = [allocPc EXCEPT ![c] = IF p = NoPort THEN "returned" ELSE "probe"]
                  /\ allocPort' = [allocPort EXCEPT ![c] = p]
                  /\ UNCHANGED <<allocatedPorts, holders>>

\* the awaiting caller takes allocatePort's result
AllocReturn(c) ==
    /\ MacroTask
    /\ allocPc[c] = "returned"
    /\ allocPc' = [allocPc EXCEPT ![c] = "idle"]
    /\ allocPort' = [allocPort EXCEPT ![c] = NoPort]
    /\ UNCHANGED <<allocatedPorts, holders>>

releasePort(p) ==
    /\ allocatedPorts' = allocatedPorts \ {p}
    /\ holders' = [holders EXCEPT ![p] = 0]
    /\ UNCHANGED <<allocPc, allocPort>>

NetInit ==
    /\ allocatedPorts = {}
    /\ allocPc = [c \in Callers |-> "idle"]
    /\ allocPort = [c \in Callers |-> NoPort]
    /\ holders = [p \in NetPorts |-> 0]

(***************************************************************************)
(* ServerController: the registry                                          *)
(***************************************************************************)
\* a server object not constructed yet
NoServer ==
    [id |-> NoId, port |-> NoPort, type |-> "dynamic", gameType |-> "mini",
     status |-> "none", process |-> FALSE, registeredWithVelocity |-> FALSE]

\* the game types of creation options and server requests
GameTypes == {"mini", "bed"}

\* pool.template, the game type of the pool's servers
PoolTemplate == "mini"

\* the pool section of the configuration as the code reads it when nothing
\* is configured: the defaults of its config.get calls
DefaultPoolConfig == [minWarm |-> 2, maxWarm |-> 5, minServers |-> 2, maxServers |-> 10]

\* a configuration that keeps one warm server
OneWarmConfig == [minWarm |-> 1, maxWarm |-> 1, minServers |-> 1, maxServers |-> 1]

\* pool.minWarm and pool.maxWarm
PoolMinWarm == poolConfig.minWarm

PoolMaxWarm == poolConfig.maxWarm

\* a Set as the sequence of its elements in insertion order
Range(q) == {q[k] : k \in 1..Len(q)}

Remove(q, x) == SelectSeq(q, LAMBDA y : y # x)

AddLast(q, x) == IF x \in Range(q) THEN q ELSE Append(q, x)

\* Creation calls take the server objects in the order of their handles, and
\* stopDynamicServer calls the lowest free slot: which handle or slot a call
\* gets is not observable.
NextObj(h) == cpc[h] = "idle" /\ \A g \in Objs : g < h => cpc[g] # "idle"

\* getServer(serverId): this.servers.get(serverId) ||
\* this.staticServers.get(serverId)
getServer(id) == IF servers[id] # NoObj THEN servers[id] ELSE staticServers[id]

\* the ports getAvailablePort collects from the registry maps (the hub's
\* configured port lies outside the range)
UsedPorts ==
    {server[servers[i]].port : i \in {j \in Ids : servers[j] # NoObj}}
        \cup {server[staticServers[n]].port : n \in {m \in StaticNames : staticServers[m] # NoObj}}

\* the first port of the range when none is free, instead of the throw
getAvailablePortOrFirst ==
    LET free == RegPorts \ UsedPorts
    IN  IF free = {} THEN RangeStart
        ELSE CHOOSE p \in free : \A q \in free : p <= q

\* getAvailablePort: the first port of the range no registry entry uses;
\* NoPort stands for its throw when there is none
getAvailablePort ==
    LET free == RegPorts \ UsedPorts
    IN  IF free = {} THEN NoPort
        ELSE CHOOSE p \in free : \A q \in free : p <= q

\* the handle of the next creation call, NoObj when the creations of the
\* model are used up
IdleObj == IF \E h \in Objs : NextObj(h) THEN CHOOSE h \in Objs : NextObj(h) ELSE NoObj

\* the ids without an entry in this.servers or this.staticServers, the
\* uniqueness test of generateServerId
Unregistered == {i \in Ids : servers[i] = NoObj /\ staticServers[i] = NoObj}

\* the draws of Math.random give every creation call an id of its own
FreshDraws == idDraw = [h \in Objs |-> IdNames[h]]

\* generateServerId: the next random id, if it passes the uniqueness test.
\* With fresh draws the ids come in the order of IdNames; otherwise the
\* creation call of handle h draws idDraw[h], and draws again (the first
\* unregistered id) when the registry holds it
generateServerId ==
    IF FreshDraws
    THEN LET drawn == {h \in Objs : \E g \in Objs : server[g].id = IdNames[h]}
             fresh == {h \in Objs : h \notin drawn /\ \A g \in Objs : g < h => g \in drawn}
         IN  {IdNames[h] : h \in {g \in fresh : servers[IdNames[g]] = NoObj}}
    ELSE IF IdleObj = NoObj THEN {}
    ELSE IF idDraw[IdleObj] \in Unregistered THEN {idDraw[IdleObj]}
    ELSE IF Unregistered = {} THEN {}
    ELSE {IdNames[CHOOSE h \in Objs : /\ IdNames[h] \in Unregistered
                                      /\ \A g \in Objs : g < h => IdNames[g] \notin Unregistered]}

\* the key of registeredWithProxy: `${server.id}:${server.port}`
regKey(h) == <<server[h].id, server[h].port>>

\* the catch block of createDynamicServer: servers.delete(serverId); the
\* releasePort(port) it calls only logs
CreateRollback(h) == [servers EXCEPT ![server[h].id] = NoObj]

\* the creation call of h is a createDynamicServer call, the one creation
\* method with a catch block
RollsBack(h) == ckind[h] \in {"create", "pool"}

\* createDynamicServer gets past its template test and finds a port
CanCreate(templateFound) ==
    templateFound /\ getAvailablePort # NoPort /\ generateServerId # {}

\* createDynamicServer(options), from the call to `await
\* this.getAvailablePort()`, as it leaves the server objects, the positions and
\* the kinds of the creation calls; it throws at once without a template,
\* and after it has drawn its id without a free port
ServerBegun(templateFound, gameType) ==
    IF IdleObj # NoObj /\ templateFound /\ generateServerId # {}
    THEN [server EXCEPT ![IdleObj].id = CHOOSE i \in generateServerId : TRUE,
                        ![IdleObj].port = getAvailablePort,
                        ![IdleObj].gameType = gameType]
    ELSE server

CpcBegun(templateFound) ==
    IF IdleObj = NoObj THEN cpc
    ELSE [cpc EXCEPT ![IdleObj] = IF CanCreate(templateFound) THEN "construct" ELSE "failed"]

CkindBegun(kind) ==
    IF IdleObj = NoObj THEN ckind ELSE [ckind EXCEPT ![IdleObj] = kind]

\* createDynamicServer called through the API
CreateBegin(h) ==
    /\ NextObj(h)
    /\ \E templateFound \in BOOLEAN, gameType \in GameTypes :
         /\ server' = ServerBegun(templateFound, gameType)
         /\ cpc' = CpcBegun(templateFound)
    /\ ckind' = CkindBegun("create")
    /\ UNCHANGED <<servers, proc, listening>>

\* addServerToPool called by the scaling operations: createDynamicServer
\* with the pool's template
addServerToPool(h) ==
    /\ NextObj(h)
    /\ \E templateFound \in BOOLEAN :
         /\ server' = ServerBegun(templateFound, PoolTemplate)
         /\ cpc' = CpcBegun(templateFound)
    /\ ckind' = CkindBegun("pool")
    /\ UNCHANGED <<servers, proc, listening>>

\* startDynamicServer, from the call to `await this.network.allocatePort()`
StartBegin(h) ==
    /\ NextObj(h)
    /\ ckind' = [ckind EXCEPT ![h] = "start"]
    /\ \E id \in generateServerId, gameType \in GameTypes :
         server' = [server EXCEPT ![h].id = id, ![h].gameType = gameType]
    /\ cpc' = [cpc EXCEPT ![h] = "port"]
    /\ AllocBegin(CallerOf(h))
    /\ UNCHANGED <<servers, proc, listening>>

\* startDynamicServer, resumed with allocatePort's result
StartPort(h) ==
    /\ MacroTask
    /\ cpc[h] = "port"
    /\ allocPc[CallerOf(h)] = "returned"
    /\ IF allocPort[CallerOf(h)] = NoPort
       THEN /\ cpc' = [cpc EXCEPT ![h] = "failed"]
            /\ UNCHANGED server
       ELSE /\ server' = [server EXCEPT ![h].port = allocPort[CallerOf(h)]]
            /\ cpc' = [cpc EXCEPT ![h] = "construct"]
    /\ AllocReturn(CallerOf(h))
    /\ UNCHANGED <<servers, proc, listening, ckind>>

\* createServer has returned (or thrown: template or jar configuration
\* missing); on success both callers do this.servers.set(serverId, server) and
\* enter startServer up to `await fs.pathExists(jarPath)`
Construct(h) ==
    /\ MacroTask
    /\ cpc[h] = "construct"
    /\ \E configFound \in BOOLEAN :
         IF configFound
         THEN /\ server' = [server EXCEPT ![h].status = "created", ![h].process = FALSE]
              /\ servers' = IF ckind[h] = "static" THEN servers
                            ELSE [servers EXCEPT ![server[h].id] = h]
              /\ staticServers' = IF ckind[h] = "static"
                                  THEN [staticServers EXCEPT ![server[h].id] = h]
                                  ELSE staticServers
              /\ cpc' = [cpc EXCEPT ![h] = "spawn"]
         ELSE /\ servers' = IF RollsBack(h) THEN CreateRollback(h) ELSE servers
              /\ cpc' = [cpc EXCEPT ![h] = "failed"]
              /\ UNCHANGED <<server, staticServers>>
    /\ UNCHANGED <<proc, listening, ckind>>

\* startServer: the jar exists and the process is spawned, then waitForReady
\* runs to its first sleep; or the jar is missing and startServer throws
Spawn(h) ==
    /\ MacroTask
    /\ cpc[h] = "spawn"
    /\ \E jarExists \in BOOLEAN :
         IF jarExists
         THEN /\ server' = [server EXCEPT ![h].status = "starting", ![h].process = TRUE]
              /\ proc' = [proc EXCEPT ![h] = "running"]
              /\ cpc' = [cpc EXCEPT ![h] = "waitReady"]
              /\ UNCHANGED servers
         ELSE /\ servers' = IF RollsBack(h) THEN CreateRollback(h) ELSE servers
              /\ cpc' = [cpc EXCEPT ![h] = "failed"]
              /\ UNCHANGED <<server, proc>>
    /\ UNCHANGED <<listening, ckind>>

\* server.process && !server.process.killed
ProcessUp(h) == server[h].process /\ proc[h] # "killed"

\* what waitForReady returns when it wakes: "ready", "died", or "sleep" to
\* poll again; after the timeout only the process decides
waitForReady(h, timedOut) ==
    IF timedOut
    THEN IF ProcessUp(h) THEN "ready" ELSE "died"
    ELSE IF server[h].status = "ready" THEN "ready"
         ELSE IF ~ProcessUp(h) THEN "died" ELSE "sleep"

\* the status startServer leaves after a successful waitForReady
StartedStatus == "running"

\* parseConsoleMessage on a "Done (...s)!" line of the process
ConsoleDone(h) ==
    /\ MacroTask
    /\ proc[h] = "running"
    /\ server' = [server EXCEPT ![h].status = "ready"]
    /\ listening' = [listening EXCEPT ![h] = TRUE]
    /\ UNCHANGED <<servers, proc, cpc, ckind>>

\* PluginBridge.handleServerReady({serverId}): a server:ready message that
\* the plugin of a process started under this id has published is delivered;
\* the status of whatever getServer finds becomes 'ready'
BridgeServerReady(id) ==
    /\ MacroTask
    /\ \E h \in Objs : server[h].id = id /\ proc[h] # "none"
    /\ getServer(id) # NoObj
    /\ server' = [server EXCEPT ![getServer(id)].status = "ready"]
    /\ UNCHANGED <<servers, proc, listening, cpc, ckind>>

\* the exit codes of a process: 0, non-zero, or null (ended by a signal)
ExitCodes(h) == IF proc[h] = "killed" THEN {"null"} ELSE {"0", "1"}

\* the 'exit' event of the process: handleServerExit; a code other than 0
\* emits serverCrash and, for a static server, sets the timer of the
\* automatic restart; on serverCrash PoolManager.handleServerCrash drops the id
\* from the warm pool and the reservations and calls addServerToPool when
\* the warm pool is below pool.minWarm
handleServerExit(h, code) ==
    /\ MacroTask
    /\ proc[h] \in {"running", "killed"}
    /\ code \in ExitCodes(h)
    /\ proc' = [proc EXCEPT ![h] = "exited"]
    /\ listening' = [listening EXCEPT ![h] = FALSE]
    /\ crashSeen' = IF code = "0" THEN crashSeen ELSE [crashSeen EXCEPT ![h] = TRUE]
    /\ restartTimer' = IF code # "0" /\ server[h].type = "static"
                       THEN [restartTimer EXCEPT ![h] = @ + 1]
                       ELSE restartTimer
    /\ LET id == server[h].id
           exited == [server EXCEPT ![h].status = "stopped", ![h].process = FALSE]
       IN  IF code = "0"
           THEN /\ server' = exited
                /\ UNCHANGED <<cpc, ckind, warmPool, reservedServers>>
           ELSE /\ warmPool' = Remove(warmPool, id)
                /\ reservedServers' = reservedServers \ {id}
                /\ IF Len(Remove(warmPool, id)) < PoolMinWarm
                   THEN \E templateFound \in BOOLEAN :
                          /\ server' = [ServerBegun(templateFound, PoolTemplate)
                                          EXCEPT ![h].status = "stopped", ![h].process = FALSE]
                          /\ cpc' = CpcBegun(templateFound)
                          /\ ckind' = CkindBegun("pool")
                   ELSE /\ server' = exited
                        /\ UNCHANGED <<cpc, ckind>>
    /\ UNCHANGED servers

(***************************************************************************)
(* RedisManager and the proxy                                              *)
(***************************************************************************)
\* RedisManager.publish: whether the message goes out.  Never when the
\* client is not connected; when it is, the publish itself may still fail.
\* Either way publish returns (true or false) and does not throw.
publish == IF connected THEN BOOLEAN ELSE {FALSE}

\* RedisManager.connect succeeds / a client emits 'end'
RedisConnect ==
    /\ MacroTask
    /\ ~connected
    /\ connected' = TRUE
    /\ UNCHANGED <<registeredWithProxy, proxy, regInflight, velInflight,
                   told, lost, regMsgs, regOutcome, proxyDowns>>

RedisEnd ==
    /\ MacroTask
    /\ connected
    /\ connected' = FALSE
    /\ UNCHANGED <<registeredWithProxy, proxy, regInflight, velInflight,
                   told, lost, regMsgs, regOutcome, proxyDowns>>

\* startProxy: the proxy process is spawned
startProxy ==
    /\ proxy = "null"
    /\ proxy' = "starting"
    /\ UNCHANGED <<registeredWithProxy, connected, regInflight, velInflight,
                   told, lost, regMsgs, regOutcome, proxyDowns>>

\* handleProxyConsoleOutput on the proxy's "Done (...s)!" line
ProxyConsoleDone ==
    /\ MacroTask
    /\ proxy = "starting"
    /\ proxy' = "ready"
    /\ lost' = [h \in Objs |-> IF lost[h] = "down" THEN "back" ELSE lost[h]]
    /\ UNCHANGED <<registeredWithProxy, connected, regInflight, velInflight,
                   told, regMsgs, regOutcome, proxyDowns>>

\* RedisManager never gets a `controller`: no line of the program assigns it
RedisControllerSet == FALSE

\* the registrations the program keeps after the proxy has gone: the exit
\* handler of startProxy clears none
RegisteredAfterProxyExit == registeredWithProxy

\* the flags the proxy:status handler leaves after a proxy_shutdown message:
\* it clears registeredWithVelocity on this.controller.servers, if it has a
\* controller
FlagsAfterProxyShutdown ==
    IF RedisControllerSet
    THEN [h \in Objs |-> IF h \in {servers[i] : i \in Ids}
                         THEN [server[h] EXCEPT !.registeredWithVelocity = FALSE]
                         ELSE server[h]]
    ELSE server

\* the proxy has forgotten every registration
ProxyForgets ==
    /\ lost' = [h \in Objs |->
                  IF (told[h] /\ regKey(h) \in registeredWithProxy) \/ lost[h] # "no"
                  THEN "down" ELSE "no"]
    /\ told' = [h \in Objs |-> FALSE]
    /\ regMsgs' = [h \in Objs |-> 0]
    /\ regOutcome' = [h \in Objs |-> "none"]
    /\ proxyDowns' = proxyDowns + 1

\* the 'exit' event of the proxy process
ProxyExit ==
    /\ MacroTask
    /\ proxy # "null"
    /\ proxyDowns < MaxProxyDowns
    /\ proxy' = "null"
    /\ registeredWithProxy' = RegisteredAfterProxyExit
    /\ ProxyForgets
    /\ UNCHANGED <<connected, regInflight, velInflight, server>>

\* a proxy_shutdown message arrives on proxy:status
ProxyShutdown ==
    /\ MacroTask
    /\ connected
    /\ proxy = "ready"
    /\ proxyDowns < MaxProxyDowns
    /\ server' = FlagsAfterProxyShutdown
    /\ ProxyForgets
    /\ UNCHANGED <<registeredWithProxy, proxy, connected, regInflight, velInflight>>

\* the proxy is ready, the bus connected and the instance (of status st)
\* ready: the case in which a register call has to reach the proxy
CanReachProxy(st) == proxy = "ready" /\ connected /\ st = "ready"

\* what a register call made in that case did, for the history
Outcome(h, st, what) ==
    IF CanReachProxy(st) THEN [regOutcome EXCEPT ![h] = what] ELSE regOutcome

\* a server:register message for h goes out, or not
PublishRegister(h, st) ==
    \E sent \in publish :
        /\ told' = IF sent /\ proxy = "ready" THEN [told EXCEPT ![h] = TRUE] ELSE told
        /\ lost' = IF sent THEN [lost EXCEPT ![h] = "no"] ELSE lost
        /\ regMsgs' = IF sent THEN [regMsgs EXCEPT ![h] = @ + 1] ELSE regMsgs
        /\ regOutcome' = Outcome(h, st, IF sent THEN "published" ELSE "failed")

\* registerServerWithProxy(server), from the call to `await publish`, for a
\* server whose status is st at the call
registerServerWithProxy(h, st) ==
    IF proxy = "null" \/ server[h].port = NoPort
    THEN UNCHANGED <<regInflight, told, lost, regMsgs, regOutcome>>
    ELSE IF regKey(h) \in registeredWithProxy
    THEN /\ regOutcome' = Outcome(h, st, "skipped")
         /\ UNCHANGED <<regInflight, told, lost, regMsgs>>
    ELSE /\ regInflight[h] < MaxRegCalls
         /\ regInflight' = [regInflight EXCEPT ![h] = @ + 1]
         /\ PublishRegister(h, st)

\* after startServer, createDynamicServer registers the server with the proxy
\* `if (this.proxy && server.status === 'ready')`
RegistersAfterStart(h) == RollsBack(h) /\ proxy # "null" /\ StartedStatus = "ready"

\* waitForReady wakes from its sleep and returns; startServer sets the
\* status and starts the health checks, or throws; createDynamicServer then
\* registers with the proxy only if the status is 'ready', and addServerToPool
\* adds the id to the warm pool
WaitReady(h) ==
    /\ MacroTask
    /\ cpc[h] = "waitReady"
    /\ \E timedOut \in BOOLEAN :
         LET r == waitForReady(h, timedOut)
         IN  /\ r # "sleep"
             /\ IF r = "ready"
                THEN /\ server' = [server EXCEPT ![h].status = StartedStatus]
                     /\ cpc' = [cpc EXCEPT ![h] = "done"]
                     /\ hpc' = [hpc EXCEPT ![h] = "idle"]
                     /\ warmPool' = IF ckind[h] = "pool"
                                    THEN AddLast(warmPool, server[h].id)
                                    ELSE warmPool
                     /\ IF RegistersAfterStart(h)
                        THEN registerServerWithProxy(h, StartedStatus)
                        ELSE UNCHANGED <<regInflight, told, lost, regMsgs, regOutcome>>
                     /\ UNCHANGED servers
                ELSE /\ servers' = IF RollsBack(h) THEN CreateRollback(h) ELSE servers
                     /\ cpc' = [cpc EXCEPT ![h] = "failed"]
                     /\ UNCHANGED <<server, hpc, warmPool>>
                     /\ UNCHANGED <<regInflight, told, lost, regMsgs, regOutcome>>
    /\ UNCHANGED <<proc, listening, ckind>>

\* registerServerWithProxy resumes after the publish: the regKey is added
RegisterDone(h) ==
    /\ MacroTask
    /\ regInflight[h] > 0
    /\ regInflight' = [regInflight EXCEPT ![h] = @ - 1]
    /\ registeredWithProxy' = registeredWithProxy \cup {regKey(h)}
    /\ UNCHANGED <<proxy, connected, velInflight, told, lost, regMsgs, regOutcome, proxyDowns>>

\* ServerController.handleServerReady(server) for a running instance of the
\* registry: "When a server becomes ready, register it ONCE"
handleServerReady(h) ==
    /\ MacroTask
    /\ \E i \in Ids : servers[i] = h
    /\ proc[h] = "running"
    /\ server' = [server EXCEPT ![h].status = "ready"]
    /\ registerServerWithProxy(h, "ready")
    /\ UNCHANGED <<registeredWithProxy, proxy, connected, velInflight, proxyDowns>>

\* registerWithVelocity(server), from the call to `await publish`
registerWithVelocity(h) ==
    /\ \E i \in Ids : servers[i] = h
    /\ IF ~connected \/ proxy # "ready"
       THEN UNCHANGED <<velInflight, told, lost, regMsgs, regOutcome>>
       ELSE IF server[h].registeredWithVelocity
       THEN /\ regOutcome' = Outcome(h, server[h].status, "skipped")
            /\ UNCHANGED <<velInflight, told, lost, regMsgs>>
       ELSE /\ velInflight[h] < MaxRegCalls
            /\ velInflight' = [velInflight EXCEPT ![h] = @ + 1]
            /\ PublishRegister(h, server[h].status)
    /\ UNCHANGED <<registeredWithProxy, proxy, connected, regInflight, proxyDowns>>

\* registerWithVelocity resumes after the publish: the flag is set
VelocityDone(h) ==
    /\ MacroTask
    /\ velInflight[h] > 0
    /\ velInflight' = [velInflight EXCEPT ![h] = @ - 1]
    /\ server' = [server EXCEPT ![h].registeredWithVelocity = TRUE]
    /\ UNCHANGED <<registeredWithProxy, proxy, connected, regInflight,
                   told, lost, regMsgs, regOutcome, proxyDowns>>

(***************************************************************************)
(* ServerController: stopDynamicServer and stopServer                      *)
(***************************************************************************)
\* a "Clean up" that sets the status and keeps the process handle
StopServerKeepsProcess(srv) ==
    [server EXCEPT ![srv].status = "stopped", ![srv].registeredWithVelocity = FALSE]

\* the tail of stopServer: "Clean up" (status, process handle)
StopServerCleanUp(srv) ==
    [server EXCEPT ![srv].status = "stopped", ![srv].process = FALSE,
                   ![srv].registeredWithVelocity = FALSE]

\* stopServer(serverId), from its call to its first await; called by
\* stopDynamicServer call t for the id of its server, with the steps `log`
\* done so far.  Throws when the id is no longer in the registry; goes on to
\* "Clean up" at once when the server has no process.  After "Clean up"
\* stopServer emits serverStopped, on which the PoolManager deletes the id
\* from the warm pool.
StopServerEnter(t, h, log) ==
    LET srv == getServer(server[h].id)
    IN  IF srv = NoObj
        THEN /\ stopPc' = [stopPc EXCEPT ![t] = "idle"]
             /\ stopLog' = [stopLog EXCEPT ![t] = Append(log, "throw")]
             /\ UNCHANGED <<server, stopSrv, warmPool>>
        ELSE /\ stopSrv' = [stopSrv EXCEPT ![t] = srv]
             /\ IF server[srv].process
                THEN /\ server' = [server EXCEPT ![srv].status = "stopping"]
                     /\ stopPc' = [stopPc EXCEPT ![t] = "waitExit"]
                     /\ stopLog' = [stopLog EXCEPT ![t] = log]
                     /\ UNCHANGED warmPool
                ELSE /\ server' = StopServerCleanUp(srv)
                     /\ warmPool' = Remove(warmPool, server[h].id)
                     /\ stopPc' = [stopPc EXCEPT ![t] = "stopped"]
                     /\ stopLog' = [stopLog EXCEPT ![t] = Append(log, "terminate")]

\* the lookup of stopDynamicServer in both registry maps, as getServer does it
StopLookupAnyMap(id) == getServer(id)

\* this.servers.get(serverId) of stopDynamicServer
StopLookup(id) == servers[id]

\* stopDynamicServer(serverId) for an id this.servers does not hold: it logs
\* and throws "not found"
StopNotFound(id) ==
    /\ StopLookup(id) = NoObj
    /\ stopCalls' = [stopCalls EXCEPT ![id] = "notFound"]
    /\ UNCHANGED <<regVars, proxyVars, stopVars, warmPool, staticServers, restartTimer, crashSeen>>

\* stopDynamicServer as the earlier definition in the class has it: no
\* unregistration, stopServer at once
StopBeginWithoutUnregister(t, id) ==
    /\ stopPc[t] = "idle"
    /\ \A u \in Stoppers : u < t => stopPc[u] # "idle"
    /\ StopLookup(id) # NoObj
    /\ LET h == StopLookup(id)
       IN  /\ stopObj' = [stopObj EXCEPT ![t] = h]
           /\ stopReg' = [stopReg EXCEPT ![t] =
                            /\ regKey(h) \in registeredWithProxy
                            /\ proc[h] = "running"
                            /\ server[h].process]
           /\ StopServerEnter(t, h, <<>>)
    /\ UNCHANGED <<servers, proc, listening, cpc, ckind, proxyVars>>

\* stopDynamicServer(serverId) for an id of the registry, from the call to
\* its first await: the publish of the unregister message when the instance
\* is registered, else the wait inside stopServer
StopBegin(t, id) ==
    /\ stopPc[t] = "idle"
    /\ \A u \in Stoppers : u < t => stopPc[u] # "idle"
    /\ StopLookup(id) # NoObj
    /\ LET h == StopLookup(id)
       IN  /\ stopObj' = [stopObj EXCEPT ![t] = h]
           /\ stopReg' = [stopReg EXCEPT ![t] =
                            /\ regKey(h) \in registeredWithProxy
                            /\ proc[h] = "running"
                            /\ server[h].process]
           /\ IF regKey(h) \in registeredWithProxy
              THEN /\ stopPc' = [stopPc EXCEPT ![t] = "unreg"]
                   /\ stopLog' = [stopLog EXCEPT ![t] = <<>>]
                   /\ stopSrv' = [stopSrv EXCEPT ![t] = NoObj]
                   /\ \E sent \in publish :
                        told' = IF sent THEN [told EXCEPT ![h] = FALSE] ELSE told
                   /\ lost' = [lost EXCEPT ![h] = "no"]
                   /\ regMsgs' = [regMsgs EXCEPT ![h] = 0]
                   /\ regOutcome' = [regOutcome EXCEPT ![h] = "none"]
                   /\ UNCHANGED <<server, warmPool>>
              ELSE /\ StopServerEnter(t, h, <<>>)
                   /\ UNCHANGED <<told, lost, regMsgs, regOutcome>>
    /\ UNCHANGED <<servers, proc, listening, cpc, ckind>>
    /\ UNCHANGED <<registeredWithProxy, proxy, connected, regInflight, velInflight, proxyDowns>>

\* the publish of server:unregister has returned: the regKey is deleted and
\* stopServer is entered
StopUnregistered(t) ==
    /\ MacroTask
    /\ stopPc[t] = "unreg"
    /\ registeredWithProxy' = registeredWithProxy \ {regKey(stopObj[t])}
    /\ StopServerEnter(t, stopObj[t], Append(stopLog[t], "unregister"))
    /\ UNCHANGED <<servers, proc, listening, cpc, ckind, proxy, connected, stopObj, stopReg>>
    /\ UNCHANGED <<regInflight, velInflight, told, lost, regMsgs, regOutcome, proxyDowns>>

\* the wait of stopServer ends: the process has exited, or the 10 s timer
\* fires and kills it; stopServer then does its "Clean up" and returns
StopWaited(t) ==
    /\ MacroTask
    /\ stopPc[t] = "waitExit"
    /\ LET srv == stopSrv[t]
       IN  /\ proc' = IF proc[srv] = "running" /\ server[srv].process
                      THEN [proc EXCEPT ![srv] = "killed"]
                      ELSE proc
           /\ server' = StopServerCleanUp(srv)
           /\ warmPool' = Remove(warmPool, server[srv].id)
    /\ stopPc' = [stopPc EXCEPT ![t] = "stopped"]
    /\ stopLog' = [stopLog EXCEPT ![t] = Append(@, "terminate")]
    /\ UNCHANGED <<servers, listening, cpc, ckind, proxyVars, stopObj, stopSrv, stopReg>>

\* stopDynamicServer resumes after stopServer: "Remove from tracking", then
\* starts removing the directory
StopRelease(t) ==
    /\ MacroTask
    /\ stopPc[t] = "stopped"
    /\ servers' = [servers EXCEPT ![server[stopObj[t]].id] = NoObj]
    /\ stopPc' = [stopPc EXCEPT ![t] = "cleanup"]
    /\ stopLog' = [stopLog EXCEPT ![t] = Append(@, "release")]
    /\ UNCHANGED <<server, proc, listening, cpc, ckind, proxyVars, stopObj, stopSrv, stopReg>>

\* the directory removal has ended (removed, or given up after 3 tries)
StopCleaned(t) ==
    /\ MacroTask
    /\ stopPc[t] = "cleanup"
    /\ stopPc' = [stopPc EXCEPT ![t] = "idle"]
    /\ stopLog' = [stopLog EXCEPT ![t] = Append(@, "cleanup")]
    /\ stopObj' = [stopObj EXCEPT ![t] = NoObj]
    /\ stopSrv' = [stopSrv EXCEPT ![t] = NoObj]
    /\ UNCHANGED <<regVars, proxyVars, stopReg>>

(***************************************************************************)
(* PoolManager                                                             *)
(***************************************************************************)
\* the test without its look at the reservations
MatchesIgnoringReserved(i, gameType) ==
    server[servers[i]].gameType = gameType

\* the test of getWarmServer on a warm id whose server exists:
\* serverGameType === gameType && !this.reservedServers.has(serverId)
Matches(i, gameType) ==
    server[servers[i]].gameType = gameType /\ i \notin reservedServers

\* the position in the warm pool at which the loop of getWarmServer
\* returns, 0 when it runs to the end
FirstMatch(gameType) ==
    LET hits == {k \in 1..Len(warmPool) :
                   servers[warmPool[k]] # NoObj /\ Matches(warmPool[k], gameType)}
    IN  IF hits = {} THEN 0 ELSE CHOOSE k \in hits : \A j \in hits : k <= j

\* getWarmServer(gameType): the loop deletes the ids without a server it
\* passes; at the first match the id moves from the warm pool to the
\* reservations, addServerToPool is called (not awaited) and the server is
\* returned; without a match null is returned.  `awaited` tells that the
\* caller is a handleServerRequest call, which has more to do on a hit
WarmServerTaken(gameType, awaited) ==
    LET k == FirstMatch(gameType)
        passed == IF k = 0 THEN Len(warmPool) ELSE k - 1
        gone == {warmPool[j] : j \in {n \in 1..passed : servers[warmPool[n]] = NoObj}}
        kept == SelectSeq(warmPool, LAMBDA i : i \notin gone)
    IN  IF k = 0
        THEN /\ warmPool' = kept
             /\ lastGet' = [gameType |-> gameType, result |-> NoId, started |-> 0, req |-> FALSE]
             /\ UNCHANGED <<reservedServers, server, cpc, ckind>>
        ELSE /\ warmPool' = Remove(kept, warmPool[k])
             /\ reservedServers' = reservedServers \cup {warmPool[k]}
             /\ lastGet' = [gameType |-> gameType, result |-> warmPool[k], started |-> 1, req |-> awaited]
             /\ \E templateFound \in BOOLEAN :
                  /\ server' = ServerBegun(templateFound, PoolTemplate)
                  /\ cpc' = CpcBegun(templateFound)
             /\ ckind' = CkindBegun("pool")

\* getWarmServer(gameType) called by itself
getWarmServer(gameType) == WarmServerTaken(gameType, FALSE)

\* handleServerRequest(request) to its first suspension: getWarmServer runs
\* within the call; on a hit the request awaits assignServer, which awaits
\* nothing for a server of the requested game type; on a miss
\* startDynamicServer is called, up to its allocatePort
handleServerRequest(gameType) ==
    /\ ~lastGet.req
    /\ IF FirstMatch(gameType) # 0
       THEN /\ WarmServerTaken(gameType, TRUE)
            /\ UNCHANGED netVars
       ELSE /\ warmPool' = SelectSeq(warmPool, LAMBDA i : servers[i] # NoObj)
            /\ lastGet' = [gameType |-> gameType, result |-> NoId, started |-> 0, req |-> FALSE]
            /\ UNCHANGED reservedServers
            /\ IF IdleObj = NoObj \/ generateServerId = {} \/ allocPc[CallerOf(IdleObj)] # "idle"
               THEN UNCHANGED <<server, cpc, ckind, netVars>>
               ELSE /\ ckind' = [ckind EXCEPT ![IdleObj] = "start"]
                    /\ \E id \in generateServerId :
                         server' = [server EXCEPT ![IdleObj].id = id, ![IdleObj].gameType = gameType]
                    /\ cpc' = [cpc EXCEPT ![IdleObj] = "port"]
                    /\ AllocBegin(CallerOf(IdleObj))

\* handleServerRequest resumes after assignServer on a pool hit: "Replenish
\* pool", a second addServerToPool call, and the server is returned
RequestAssigned ==
    /\ lastGet.req
    /\ lastGet' = [lastGet EXCEPT !.started = @ + 1, !.req = FALSE]
    /\ \E templateFound \in BOOLEAN :
         /\ server' = ServerBegun(templateFound, PoolTemplate)
         /\ cpc' = CpcBegun(templateFound)
    /\ ckind' = CkindBegun("pool")
    /\ UNCHANGED <<warmPool, reservedServers>>

\* shouldReturnToPool of handleServerRelease, for the server object h
shouldReturnToPool(h) ==
    /\ Len(warmPool) < PoolMaxWarm
    /\ server[h].status = "ready"
    /\ players[h] = {}

\* handleServerRelease(serverId), from the call to its first await: the
\* reservation is deleted; a dynamic server that is ready and without
\* players, with room in the warm pool, is reset (sendCommand throws when
\* the server has no process), any other is stopped by stopDynamicServer
handleServerRelease(t, id) ==
    /\ reservedServers' = reservedServers \ {id}
    /\ UNCHANGED lastGet
    /\ IF servers[id] = NoObj \/ server[servers[id]].type # "dynamic"
       THEN UNCHANGED <<relInflight, warmPool, server, stopVars, told, lost, regMsgs, regOutcome>>
       ELSE IF shouldReturnToPool(servers[id])
            THEN /\ relInflight[id] < MaxReleases
                 /\ relInflight' = IF server[servers[id]].process
                                   THEN [relInflight EXCEPT ![id] = @ + 1]
                                   ELSE relInflight
                 /\ UNCHANGED <<warmPool, server, stopVars, told, lost, regMsgs, regOutcome>>
            ELSE /\ StopBegin(t, id)
                 /\ UNCHANGED relInflight

\* handleServerRelease resumes after resetServer: this.warmPool.add(serverId)
ReleaseDone(id) ==
    /\ relInflight[id] > 0
    /\ relInflight' = [relInflight EXCEPT ![id] = @ - 1]
    /\ warmPool' = AddLast(warmPool, id)
    /\ UNCHANGED <<reservedServers, lastGet>>

\* this.getServer(server), as the stopServer(server) of restartServer and of
\* stopStaticServer evaluates it: the registry maps are keyed by id and the argument is the object
getServerByObject(h) == NoObj

(***************************************************************************)
(* PoolManager: scaling                                                    *)
(***************************************************************************)
\* pool.minServers and pool.maxServers
PoolMinServers == poolConfig.minServers

PoolMaxServers == poolConfig.maxServers

\* getWarmServers().length: the ids of the warm pool whose server is found
\* with status 'ready'
WarmCount ==
    Cardinality({k \in 1..Len(warmPool) :
                   /\ getServer(warmPool[k]) # NoObj
                   /\ server[getServer(warmPool[k])].status = "ready"})

\* the count scaleUp(count) settles on, 0 when the pool is at its maximum
ScaleUpCount(count) ==
    IF Len(warmPool) >= PoolMaxServers THEN 0
    ELSE IF PoolMaxServers - Len(warmPool) < count THEN PoolMaxServers - Len(warmPool)
    ELSE count

\* an addServerToPool call of a scaling loop, up to the first await of its
\* createDynamicServer
PoolCreationBegun ==
    /\ IdleObj # NoObj
    /\ \E templateFound \in BOOLEAN :
         /\ server' = ServerBegun(templateFound, PoolTemplate)
         /\ cpc' = CpcBegun(templateFound)
    /\ ckind' = CkindBegun("pool")
    /\ UNCHANGED <<servers, proc, listening>>

\* the addServerToPool call a scaling loop awaits has returned or thrown
CreationEnded(h) == h # NoObj /\ cpc[h] \in {"done", "failed"}

\* the flag when a checkAndScale call that set it ends only if its loop ran
\* to the end
FlagKeptAfterBreak(broke) == broke

\* `finally { this.scaling = false; }` of checkAndScale, for a call whose
\* scaleUp loop was broken by a throw or not
FlagAtReturn(broke) == FALSE

\* checkAndScale() while no call is in flight (the pool is enabled), to the
\* first await of scaleUp: the flag is set, and with fewer ready warm servers
\* than pool.minWarm scaleUp(needed) begins its loop; with nothing to add the
\* call ends in the same turn and `finally` clears the flag.  The warm pool
\* of the model never exceeds pool.maxWarm, the case of scaleDown.
checkAndScale ==
    /\ ~scaling
    /\ WarmCount <= PoolMaxWarm
    /\ LET needed == IF WarmCount < PoolMinWarm THEN PoolMinWarm - WarmCount ELSE 0
           count == ScaleUpCount(needed)
           call == [cas EXCEPT !.warm = Len(warmPool), !.needed = needed, !.added = 0]
       IN  IF count = 0
           THEN /\ cas' = [call EXCEPT !.pc = "idle", !.left = 0, !.obj = NoObj,
                                       !.result = IF needed = 0 THEN "optimal" ELSE "scaled-up"]
                /\ scaling' = FlagAtReturn(FALSE)
                /\ UNCHANGED regVars
           ELSE /\ cas' = [call EXCEPT !.pc = "up", !.left = count - 1, !.obj = IdleObj,
                                       !.result = "none"]
                /\ scaling' = TRUE
                /\ PoolCreationBegun
    /\ UNCHANGED stm

\* checkAndScale() while a call is in flight: 'already-scaling'
checkAndScaleSkipped ==
    /\ scaling
    /\ cas' = [cas EXCEPT !.skipped = TRUE]
    /\ UNCHANGED <<scaling, stm, regVars>>

\* scaleUp resumes after an addServerToPool: a throw breaks the loop, a
\* server is counted and the next addServerToPool begins; after the loop
\* checkAndScale returns and `finally` clears the flag
ScaleUpResumes ==
    /\ MacroTask
    /\ cas.pc = "up"
    /\ CreationEnded(cas.obj)
    /\ LET ok == cpc[cas.obj] = "done"
           added == IF ok THEN cas.added + 1 ELSE cas.added
       IN  IF ok /\ cas.left > 0
           THEN /\ cas' = [cas EXCEPT !.added = added, !.left = @ - 1, !.obj = IdleObj]
                /\ PoolCreationBegun
                /\ UNCHANGED scaling
           ELSE /\ cas' = [cas EXCEPT !.added = added, !.left = 0, !.obj = NoObj,
                                      !.pc = "idle", !.result = "scaled-up"]
                /\ scaling' = FlagAtReturn(~ok)
                /\ UNCHANGED regVars
    /\ UNCHANGED stm

\* a loop that ends at the first creation that throws, as that of scaleUp
BreaksAfterFailure(left) == FALSE

\* the loop of scaleToMin goes on after a creation that threw (the try/catch
\* is inside the loop) while creations are left
ContinuesAfterFailure(left) == left > 0

\* scaleToMin() with the warm pool below pool.minServers, to the first await
\* of its loop (with the pool at the minimum it returns at once)
scaleToMin ==
    /\ stm.pc = "idle"
    /\ Len(warmPool) < PoolMinServers
    /\ stm' = [pc |-> "run", left |-> PoolMinServers - Len(warmPool) - 1, obj |-> IdleObj,
               made |-> 0, failed |-> 0, warm |-> Len(warmPool),
               needed |-> PoolMinServers - Len(warmPool)]
    /\ PoolCreationBegun
    /\ UNCHANGED <<scaling, cas>>

\* scaleToMin resumes after an addServerToPool: the result is recorded and
\* the next addServerToPool begins, or the loop has ended and the results are
\* returned
ScaleToMinResumes ==
    /\ MacroTask
    /\ stm.pc = "run"
    /\ CreationEnded(stm.obj)
    /\ LET ok == cpc[stm.obj] = "done"
           results == [stm EXCEPT !.made = IF ok THEN @ + 1 ELSE @,
                                  !.failed = IF ok THEN @ ELSE @ + 1]
       IN  IF (ok /\ stm.left > 0) \/ (~ok /\ ContinuesAfterFailure(stm.left))
           THEN /\ stm' = [results EXCEPT !.left = @ - 1, !.obj = IdleObj]
                /\ PoolCreationBegun
           ELSE /\ stm' = [results EXCEPT !.left = 0, !.obj = NoObj, !.pc = "idle"]
                /\ UNCHANGED regVars
    /\ UNCHANGED <<scaling, cas>>

\* the test of checkPoolHealth on a warm id: !server || server.status ===
\* 'crashed'
Unhealthy(id) ==
    getServer(id) = NoObj \/ server[getServer(id)].status = "crashed"

\* checkPoolHealth(), a tick of the interval of startMonitoring, to its first
\* suspension: for every unhealthy warm id removeServerFromPool calls
\* stopDynamicServer, which throws for an id this.servers does not hold
\* before warmPool.delete is reached (the throw is caught and logged); then
\* scaleToMin is called if the pool was below pool.minServers at the start.
\* No statement of the program assigns the status 'crashed', so every
\* unhealthy id is one without a registry entry; the warm pool of the model
\* never exceeds pool.maxServers, the case of scaleDown().
checkPoolHealth ==
    /\ MacroTask
    /\ sweep.n < MaxSweeps
    /\ stm.pc = "idle"
    /\ Len(warmPool) <= PoolMaxServers
    /\ LET unhealthy == {id \in Range(warmPool) : Unhealthy(id)}
       IN  /\ \A id \in unhealthy : StopLookup(id) = NoObj
           /\ sweep' = [n |-> sweep.n + 1, unhealthy |-> unhealthy]
           /\ stopCalls' = [i \in Keys |-> IF i \in unhealthy THEN "notFound" ELSE stopCalls[i]]
    /\ IF Len(warmPool) < PoolMinServers
       THEN scaleToMin
       ELSE UNCHANGED <<scaleVars, regVars>>
    /\ UNCHANGED <<warmPool, staticServers, restartTimer, crashSeen>>

\* Array.from(this.warmPool).slice(0, count): the index of the last element
\* the slice holds
SliceEnd(len, count) == IF count < len THEN count ELSE len

\* the count as it is asked for, whatever the size of the pool
ScaleDownUnbounded(current, count) == count

\* the count scaleDown(count) settles on, 0 when the pool is at
\* pool.minServers
ScaleDownCount(current, count) ==
    IF current <= PoolMinServers THEN 0
    ELSE IF current - PoolMinServers < count THEN current - PoolMinServers
    ELSE count

\* the branch of checkAndScale for a warm count above pool.maxWarm, applied
\* to a warm pool whose instances are all ready: scaleDown(excess) takes the
\* first instances of the warm pool and removes those that are not reserved
checkAndScaleDown ==
    /\ ~downDone
    /\ downDone' = TRUE
    /\ LET warmCount == Len(downPool)
           count == IF warmCount > PoolMaxWarm
                    THEN ScaleDownCount(Len(downPool), warmCount - PoolMaxWarm)
                    ELSE 0
       IN  downRemoved' = {k \in 1..SliceEnd(warmCount, count) : ~downPool[k]}
    /\ UNCHANGED downPool

\* scaleDown's `count = null`
NoCount == 0

\* Math.ceil((current - min) * 0.3) of scaleDown, for a pool above its minimum
Decrement(current) == ((current - PoolMinServers) * 3 + 9) \div 10

\* scaleDown(count) applied to a warm pool whose stops all succeed: without
\* a count it settles on three tenths of what is above pool.minServers; it
\* takes the first `count` ids of the warm pool and removes those that are
\* not reserved
scaleDown(count) ==
    /\ ~downDone
    /\ downDone' = TRUE
    /\ LET current == Len(downPool)
           n == IF count = NoCount
                THEN ScaleDownCount(current, Decrement(current))
                ELSE ScaleDownCount(current, count)
       IN  downRemoved' = {k \in 1..SliceEnd(current, n) : ~downPool[k]}
    /\ UNCHANGED downPool

(***************************************************************************)
(* ServerController: static servers                                        *)
(***************************************************************************)
\* startStaticServer(name), from its entry to `await createServer`, as it
\* leaves the server objects and the creation calls: it throws at once when
\* the name is not configured
StaticBegun(h, name) ==
    /\ NextObj(h)
    /\ \E configured \in BOOLEAN :
         /\ cpc' = [cpc EXCEPT ![h] = IF configured THEN "construct" ELSE "failed"]
         /\ server' = IF configured
                      THEN [server EXCEPT ![h].id = name, ![h].port = StaticPort,
                                          ![h].type = "static"]
                      ELSE server
    /\ ckind' = [ckind EXCEPT ![h] = "static"]
    /\ UNCHANGED <<servers, proc, listening, staticServers, stopCalls, crashSeen>>

\* startStaticServer(name) called through the API; with the name in
\* staticServers it throws "already running" and changes nothing
startStaticServer(h, name) ==
    /\ staticServers[name] = NoObj
    /\ StaticBegun(h, name)
    /\ UNCHANGED restartTimer

\* the timer handleServerExit set for a static server fires:
\* startStaticServer(server.id); the callback logs what it throws
RestartTimerFires(h, g) ==
    /\ MacroTask
    /\ restartTimer[h] > 0
    /\ restartTimer' = [restartTimer EXCEPT ![h] = @ - 1]
    /\ IF staticServers[server[h].id] # NoObj
       THEN /\ g = h
            /\ UNCHANGED <<regVars, staticServers, stopCalls, crashSeen>>
       ELSE StaticBegun(g, server[h].id)

\* stopStaticServer(name): the name is not found, or stopServer(server) is
\* called with the server object and looks it up as an id; where the lookup
\* finds the server it is stopping
stopStaticServer(name) ==
    /\ UNCHANGED <<servers, proc, listening, cpc, ckind, staticServers, restartTimer, crashSeen>>
    /\ IF staticServers[name] = NoObj
       THEN /\ stopCalls' = [stopCalls EXCEPT ![name] = "notFound"]
            /\ UNCHANGED server
       ELSE /\ stopCalls' = [stopCalls EXCEPT ![name] = "found"]
            /\ IF getServerByObject(staticServers[name]) = NoObj
               THEN UNCHANGED server
               ELSE server' = [server EXCEPT ![staticServers[name]].status = "stopping"]

(***************************************************************************)
(* ServerController: players and the shutdown of empty servers             *)
(***************************************************************************)
\* handlePlayerJoin(server, playerName), on a "joined the game" line of the
\* process
handlePlayerJoin(h, p) ==
    /\ MacroTask
    /\ proc[h] = "running"
    /\ players' = [players EXCEPT ![h] = @ \cup {p}]
    /\ joined' = [joined EXCEPT ![h] = TRUE]
    /\ UNCHANGED <<emptyTimeout, pending, idleStopped>>

\* the timers left pending without the clearTimeout
KeepTimeout(h) == pending[h]

\* the timers left pending by `if (server.emptyTimeout)
\* clearTimeout(server.emptyTimeout)`: the handle is that of the timer set
\* last
ClearTimeout(h) ==
    IF emptyTimeout[h] /\ pending[h] > 0 THEN pending[h] - 1 ELSE pending[h]

\* scheduleEmptyServerShutdown(server), dynamicServers.shutdownEmpty being
\* true: the timer is cleared and set anew
scheduleEmptyServerShutdown(h) ==
    /\ pending' = [pending EXCEPT ![h] = ClearTimeout(h) + 1]
    /\ emptyTimeout' = [emptyTimeout EXCEPT ![h] = TRUE]
    /\ joined' = [joined EXCEPT ![h] = FALSE]

\* handlePlayerQuit(server, playerName), on a "left the game" or "lost
\* connection" line of the process
handlePlayerQuit(h, p) ==
    /\ MacroTask
    /\ proc[h] = "running"
    /\ players' = [players EXCEPT ![h] = @ \ {p}]
    /\ UNCHANGED idleStopped
    /\ IF server[h].type = "dynamic" /\ players[h] \ {p} = {}
       THEN scheduleEmptyServerShutdown(h)
       ELSE UNCHANGED <<emptyTimeout, pending, joined>>

\* the timer callback stops whatever the player list is
StopsAtFireAlways(h) == TRUE

\* the test of the timer callback: server.players.length === 0
StopsAtFire(h) == players[h] = {}

\* the timer of scheduleEmptyServerShutdown fires: stopDynamicServer(server.id)
\* is called if the server has no players; the call throws at once (and the
\* callback logs it) when the id is not in the registry
EmptyTimeoutFires(t, h) ==
    /\ MacroTask
    /\ pending[h] > 0
    /\ pending' = [pending EXCEPT ![h] = @ - 1]
    /\ UNCHANGED <<players, emptyTimeout, joined>>
    /\ idleStopped' = IF StopsAtFire(h) THEN [idleStopped EXCEPT ![h] = TRUE] ELSE idleStopped
    /\ IF StopsAtFire(h) /\ servers[server[h].id] # NoObj
       THEN StopBegin(t, server[h].id)
       ELSE /\ t = 1
            /\ UNCHANGED <<regVars, proxyVars, stopVars, warmPool>>

(***************************************************************************)
(* ServerController: health checks                                         *)
(***************************************************************************)
\* failed checks in a row at which the timer callback calls restartServer
RestartThreshold == 3

\* NetworkManager.checkPort(server.port): a connection to the port succeeds
\* within the timeout, or not; never when nothing listens there
checkPort(h) ==
    IF \E g \in Objs : listening[g] /\ server[g].port = server[h].port
    THEN BOOLEAN ELSE {FALSE}

\* the counter after a failed check
FailedAfterFailure(h) == failed[h] + 1

\* the counter after a healthy check
FailedAfterSuccess(h) == 0

\* the restart one failure early
RestartDueAtTwo(h) == FailedAfterFailure(h) >= RestartThreshold - 1

\* the timer callback goes on to restartServer after a failed check
RestartDue(h) == FailedAfterFailure(h) >= RestartThreshold

\* restartServer(server): stopServer(server) throws "Server not found"
\* unless the lookup by object finds the server; the rejection ends the
\* timer callback
restartServer(h) ==
    /\ restartCalls' = [restartCalls EXCEPT ![h] = @ + 1]
    /\ restarts' = IF getServerByObject(h) # NoObj
                   THEN [restarts EXCEPT ![h] = @ + 1]
                   ELSE restarts

\* the timer callback of startHealthChecks, from the result of
\* checkServerHealth on
HealthResult(h, healthy) ==
    IF healthy
    THEN /\ failed' = [failed EXCEPT ![h] = FailedAfterSuccess(h)]
         /\ consec' = [consec EXCEPT ![h] = 0]
         /\ UNCHANGED <<restartCalls, restarts>>
    ELSE /\ failed' = [failed EXCEPT ![h] = FailedAfterFailure(h)]
         /\ consec' = [consec EXCEPT ![h] = @ + 1]
         /\ IF RestartDue(h)
            THEN restartServer(h)
            ELSE UNCHANGED <<restartCalls, restarts>>

\* the interval timer of a server fires: checkServerHealth fails at once
\* when the server has no process, else it probes the port
HealthTick(h) ==
    /\ MacroTask
    /\ hpc[h] = "idle"
    /\ failed[h] < MaxFailed
    /\ restartCalls[h] < MaxRestartCalls
    /\ IF ~server[h].process
       THEN HealthResult(h, FALSE) /\ UNCHANGED hpc
       ELSE /\ hpc' = [hpc EXCEPT ![h] = "probe"]
            /\ UNCHANGED <<failed, consec, restartCalls, restarts>>

\* the port probe of checkServerHealth resolves
HealthProbed(h) ==
    /\ MacroTask
    /\ hpc[h] = "probe"
    /\ hpc' = [hpc EXCEPT ![h] = "idle"]
    /\ \E responding \in checkPort(h) : HealthResult(h, responding)

(***************************************************************************)
(* Initial state and specifications                                        *)
(***************************************************************************)
RegInit ==
    /\ servers = [i \in Keys |-> NoObj]
    /\ server = [h \in Objs |-> NoServer]
    /\ proc = [h \in Objs |-> "none"]
    /\ listening = [h \in Objs |-> FALSE]
    /\ cpc = [h \in Objs |-> "idle"]
    /\ ckind = [h \in Objs |-> "none"]

ProxyInit ==
    /\ registeredWithProxy = {}
    /\ proxy = "null"
    /\ connected = FALSE
    /\ regInflight = [h \in Objs |-> 0]
    /\ velInflight = [h \in Objs |-> 0]
    /\ told = [h \in Objs |-> FALSE]
    /\ lost = [h \in Objs |-> "no"]
    /\ regMsgs = [h \in Objs |-> 0]
    /\ regOutcome = [h \in Objs |-> "none"]
    /\ proxyDowns = 0

StopInit ==
    /\ stopPc = [t \in Stoppers |-> "idle"]
    /\ stopObj = [t \in Stoppers |-> NoObj]
    /\ stopSrv = [t \in Stoppers |-> NoObj]
    /\ stopLog = [t \in Stoppers |-> <<>>]
    /\ stopReg = [t \in Stoppers |-> FALSE]

HealthInit ==
    /\ hpc = [h \in Objs |-> "off"]
    /\ failed = [h \in Objs |-> 0]
    /\ consec = [h \in Objs |-> 0]
    /\ restartCalls = [h \in Objs |-> 0]
    /\ restarts = [h \in Objs |-> 0]

PoolInit ==
    /\ warmPool = <<>>
    /\ reservedServers = {}
    /\ relInflight = [i \in Ids |-> 0]
    /\ lastGet = [gameType |-> PoolTemplate, result |-> NoId, started |-> 0, req |-> FALSE]

IdleInit ==
    /\ players = [h \in Objs |-> {}]
    /\ emptyTimeout = [h \in Objs |-> FALSE]
    /\ pending = [h \in Objs |-> 0]
    /\ joined = [h \in Objs |-> FALSE]
    /\ idleStopped = [h \in Objs |-> FALSE]

ScaleInit ==
    /\ scaling = FALSE
    /\ cas = [pc |-> "idle", left |-> 0, obj |-> NoObj, added |-> 0, warm |-> 0,
              needed |-> 0, skipped |-> FALSE, result |-> "none"]
    /\ stm = [pc |-> "idle", left |-> 0, obj |-> NoObj, made |-> 0, failed |-> 0,
              warm |-> 0, needed |-> 0]

StaticInit ==
    /\ staticServers = [n \in Keys |-> NoObj]
    /\ restartTimer = [h \in Objs |-> 0]
    /\ stopCalls = [i \in Keys |-> "none"]
    /\ crashSeen = [h \in Objs |-> FALSE]

\* no pool check has run
SweepInit == sweep = [n |-> 0, unhealthy |-> {}]

\* no signal has arrived
ShutInit ==
    sd = [cleanup |-> "none", seen |-> {}, slot |-> 0,
          shutdown |-> "none", poolIds |-> <<>>, pslot |-> 0, exit |-> "none"]

\* the state after construction but for the configuration
InitState ==
    /\ NetInit /\ RegInit /\ ProxyInit /\ StopInit /\ HealthInit /\ PoolInit /\ IdleInit
    /\ StaticInit /\ ScaleInit /\ ShutInit /\ SweepInit

\* no warm pool to scale down
DownInit == downPool = <<>> /\ downRemoved = {} /\ downDone = FALSE

\* the warm pools of ready instances, reserved or not, up to MaxDownWarm
DownPools == UNION {[1..n -> BOOLEAN] : n \in 0..MaxDownWarm}

Init == InitState /\ rangeEnd = RangeEnd /\ poolConfig = DefaultPoolConfig /\ FreshDraws /\ DownInit

\* the state after construction with a pool configured to hold one warm
\* server
InitOneWarm ==
    InitState /\ rangeEnd = RangeEnd /\ poolConfig = OneWarmConfig /\ FreshDraws /\ DownInit

\* the state after construction when Math.random is about to repeat itself:
\* two creation calls draw the same five characters
InitRepeats ==
    /\ InitState /\ rangeEnd = RangeEnd /\ poolConfig = DefaultPoolConfig /\ DownInit
    /\ idDraw \in {d \in [Objs -> Ids] : \E g, h \in Objs : g # h /\ d[g] = d[h]}

\* a warm pool of ready instances is given and nothing else has happened
InitDown ==
    /\ InitState /\ rangeEnd = RangeEnd /\ poolConfig = DefaultPoolConfig /\ FreshDraws
    /\ downPool \in DownPools /\ downRemoved = {} /\ downDone = FALSE

\* the state after construction under a configuration whose port range is
\* one port (ports.rangeEnd = ports.rangeStart)
InitOnePort == InitState /\ rangeEnd = RangeStart /\ poolConfig = DefaultPoolConfig /\ FreshDraws /\ DownInit

(***************************************************************************)
(* The SIGINT/SIGTERM handlers: cleanup of ServerController and shutdown   *)
(* of ServerManager                                                        *)
(***************************************************************************)
\* the manager process has not exited
Running == sd.exit = "none"

\* ServerController has a method stopAll: no class of the program defines one
StopAllDefined == FALSE

\* the ids of this.servers that the loop of cleanup has not visited
CleanupLeft == {id \in Keys : servers[id] # NoObj /\ id \notin sd.seen}

\* SIGINT or SIGTERM arrives and both handlers run to their first await:
\* cleanup calls stopProxy if there is a proxy, which writes "end" and waits
\* for the exit, and shutdown awaits apiServer.stop()
Signal ==
    /\ MacroTask
    /\ Running
    /\ sd.cleanup = "none"
    /\ sd' = [sd EXCEPT !.cleanup = IF proxy # "null" THEN "proxy" ELSE "dynamic",
                        !.shutdown = "api"]
    /\ UNCHANGED <<regVars, proxyVars, stopVars, warmPool, staticVars>>

\* the wait of stopProxy ends, at the exit of the proxy process or at the
\* 10 s timer that kills it; stopProxy sets this.proxy = null and cleanup
\* goes on to its loop over this.servers
CleanupProxyStopped ==
    /\ MacroTask
    /\ Running
    /\ sd.cleanup = "proxy"
    /\ proxy' = "null"
    /\ IF proxy # "null"
       THEN /\ registeredWithProxy' = RegisteredAfterProxyExit
            /\ ProxyForgets
       ELSE UNCHANGED <<registeredWithProxy, told, lost, regMsgs, regOutcome, proxyDowns>>
    /\ sd' = [sd EXCEPT !.cleanup = "dynamic"]
    /\ UNCHANGED <<regVars, connected, regInflight, velInflight, stopVars, warmPool, staticVars>>

\* the loop of cleanup over this.servers.keys() calls stopDynamicServer for
\* the next id and awaits it
CleanupStops(t, id) ==
    /\ Running
    /\ sd.cleanup = "dynamic"
    /\ sd.slot = 0
    /\ id \in CleanupLeft
    /\ StopBegin(t, id)
    /\ sd' = [sd EXCEPT !.seen = @ \cup {id}, !.slot = t]
    /\ UNCHANGED staticVars

\* the stopDynamicServer call of cleanup has returned or thrown (the throw
\* is caught and logged)
CleanupStopReturned ==
    /\ Running
    /\ sd.slot # 0
    /\ stopPc[sd.slot] = "idle"
    /\ sd' = [sd EXCEPT !.slot = 0]
    /\ UNCHANGED <<regVars, proxyVars, stopVars, warmPool, staticVars>>

\* the loop over this.servers has ended: cleanup calls stopStaticServer for
\* the static server, catches what it throws, and calls process.exit(0)
CleanupExits ==
    /\ Running
    /\ sd.cleanup = "dynamic"
    /\ sd.slot = 0
    /\ CleanupLeft = {}
    /\ LET names == {n \in StaticNames : staticServers[n] # NoObj}
       IN  IF names = {}
           THEN UNCHANGED <<regVars, staticVars>>
           ELSE \E n \in names : stopStaticServer(n)
    /\ sd' = [sd EXCEPT !.cleanup = "done", !.exit = "0"]
    /\ UNCHANGED <<proxyVars, stopVars, warmPool>>

\* apiServer.stop() has closed the HTTP server: shutdown calls
\* poolManager.stop(), which copies warmPool for its loop
ShutdownApiClosed ==
    /\ MacroTask
    /\ Running
    /\ sd.shutdown = "api"
    /\ sd' = [sd EXCEPT !.shutdown = "pool", !.poolIds = warmPool]
    /\ UNCHANGED <<regVars, proxyVars, stopVars, warmPool, staticVars>>

\* the loop of poolManager.stop calls removeServerFromPool for the next id:
\* it returns if warmPool no longer has the id, else it calls
\* stopDynamicServer, which throws at once for an id the registry does not
\* hold (caught and logged)
ShutdownPoolStops(t) ==
    /\ Running
    /\ sd.shutdown = "pool"
    /\ sd.pslot = 0
    /\ sd.poolIds # <<>>
    /\ LET id == Head(sd.poolIds)
       IN  IF id \notin Range(warmPool)
           THEN /\ sd' = [sd EXCEPT !.poolIds = Tail(@)]
                /\ UNCHANGED <<regVars, proxyVars, stopVars, warmPool, staticVars>>
           ELSE IF StopLookup(id) = NoObj
           THEN /\ sd' = [sd EXCEPT !.poolIds = Tail(@)]
                /\ StopNotFound(id)
           ELSE /\ sd' = [sd EXCEPT !.pslot = t]
                /\ StopBegin(t, id)
                /\ UNCHANGED staticVars

\* the stopDynamicServer call of removeServerFromPool has ended: the id is
\* deleted from warmPool unless the call threw
ShutdownPoolStopped ==
    /\ Running
    /\ sd.pslot # 0
    /\ stopPc[sd.pslot] = "idle"
    /\ LET log == stopLog[sd.pslot]
       IN  warmPool' = IF log # <<>> /\ log[Len(log)] = "throw"
                       THEN warmPool
                       ELSE Remove(warmPool, Head(sd.poolIds))
    /\ sd' = [sd EXCEPT !.poolIds = Tail(@), !.pslot = 0]
    /\ UNCHANGED <<regVars, proxyVars, stopVars, staticVars>>

\* poolManager.stop() has returned: shutdown calls
\* this.serverController.stopAll(), which is not a function; the TypeError
\* is caught and the handler calls process.exit(1)
ShutdownStopAll ==
    /\ Running
    /\ sd.shutdown = "pool"
    /\ sd.pslot = 0
    /\ sd.poolIds = <<>>
    /\ ~StopAllDefined
    /\ sd' = [sd EXCEPT !.shutdown = "failed", !.exit = "1"]
    /\ UNCHANGED <<regVars, proxyVars, stopVars, warmPool, staticVars>>

NetNext ==
    \/ \E c \in DirectCallers : AllocBegin(c) /\ UNCHANGED <<sweepVars, shutVars, downVars, configVars, scaleVars, staticVars, idleVars, regVars, proxyVars, stopVars, healthVars, poolVars>>
    \/ \E c \in DirectCallers : AllocProbed(c) /\ UNCHANGED <<sweepVars, shutVars, downVars, configVars, scaleVars, staticVars, idleVars, regVars, proxyVars, stopVars, healthVars, poolVars>>
    \/ \E c \in DirectCallers : AllocReturn(c) /\ UNCHANGED <<sweepVars, shutVars, downVars, configVars, scaleVars, staticVars, idleVars, regVars, proxyVars, stopVars, healthVars, poolVars>>
    \/ \E p \in NetPorts : releasePort(p) /\ UNCHANGED <<sweepVars, shutVars, downVars, configVars, scaleVars, staticVars, idleVars, regVars, proxyVars, stopVars, healthVars, poolVars>>

\* the steps of creation calls and of the processes of the handles H
CreateSteps(H) ==
    \/ \E h \in H : CreateBegin(h) /\ UNCHANGED <<sweepVars, shutVars, downVars, configVars, scaleVars, staticVars, idleVars, netVars, proxyVars, stopVars, healthVars, poolVars>>
    \/ \E h \in H : Construct(h) /\ UNCHANGED <<sweepVars, shutVars, downVars, configVars, scaleVars, restartTimer, stopCalls, crashSeen, idleVars, netVars, proxyVars, stopVars, healthVars, poolVars>>
    \/ \E h \in H : Spawn(h) /\ UNCHANGED <<sweepVars, shutVars, downVars, configVars, scaleVars, staticVars, idleVars, netVars, proxyVars, stopVars, healthVars, poolVars>>
    \/ \E h \in H : WaitReady(h)
         /\ UNCHANGED <<sweepVars, shutVars, downVars, configVars, scaleVars, staticVars, idleVars, netVars, stopVars, failed, consec, restartCalls, restarts, poolRest>>
         /\ UNCHANGED <<registeredWithProxy, proxy, connected, velInflight, proxyDowns>>
    \/ \E h \in H : ConsoleDone(h) /\ UNCHANGED <<sweepVars, shutVars, downVars, configVars, scaleVars, staticVars, idleVars, netVars, proxyVars, stopVars, healthVars, poolVars>>
    \/ \E h \in H, code \in {"0", "1", "null"} :
         handleServerExit(h, code)
           /\ UNCHANGED <<sweepVars, shutVars, downVars, configVars, scaleVars, staticServers, stopCalls, idleVars, netVars, proxyVars, stopVars, healthVars, relInflight, lastGet>>

\* the steps of startDynamicServer calls, which take their port from the
\* NetworkManager
StartSteps(H) ==
    \/ \E h \in H : StartBegin(h) /\ UNCHANGED <<sweepVars, shutVars, downVars, configVars, scaleVars, staticVars, idleVars, proxyVars, stopVars, healthVars, poolVars>>
    \/ \E h \in H : AllocProbed(CallerOf(h)) /\ UNCHANGED <<sweepVars, shutVars, downVars, configVars, scaleVars, staticVars, idleVars, regVars, proxyVars, stopVars, healthVars, poolVars>>
    \/ \E h \in H : StartPort(h) /\ UNCHANGED <<sweepVars, shutVars, downVars, configVars, scaleVars, staticVars, idleVars, proxyVars, stopVars, healthVars, poolVars>>

CreateNext == CreateSteps(Objs) \/ StartSteps(Objs)

\* the steps of stopDynamicServer calls, but for the one after the
\* unregister publish
StopSteps ==
    \/ \E t \in Stoppers, id \in Keys : StopBegin(t, id) /\ UNCHANGED <<sweepVars, shutVars, downVars, configVars, scaleVars, staticVars, idleVars, netVars, healthVars, poolRest>>
    \/ \E t \in Stoppers : StopWaited(t) /\ UNCHANGED <<sweepVars, shutVars, downVars, configVars, scaleVars, staticVars, idleVars, netVars, healthVars, poolRest>>
    \/ \E t \in Stoppers : StopRelease(t) /\ UNCHANGED <<sweepVars, shutVars, downVars, configVars, scaleVars, staticVars, idleVars, netVars, healthVars, poolVars>>
    \/ \E t \in Stoppers : StopCleaned(t) /\ UNCHANGED <<sweepVars, shutVars, downVars, configVars, scaleVars, staticVars, idleVars, netVars, healthVars, poolVars>>

\* a stopDynamicServer call resumes after its unregister publish
UnregisterSteps ==
    \E t \in Stoppers : StopUnregistered(t) /\ UNCHANGED <<sweepVars, shutVars, downVars, configVars, scaleVars, staticVars, idleVars, netVars, healthVars, poolRest>>

\* stopDynamicServer calls for ids the registry does not hold
StopMissSteps ==
    \E id \in Keys : StopNotFound(id)
        /\ UNCHANGED <<sweepVars, shutVars, downVars, configVars, scaleVars, idleVars, netVars, healthVars, poolRest>>

StopNext == StopSteps \/ UnregisterSteps \/ StopMissSteps

\* the proxy and the message bus
ProxySteps ==
    \/ RedisConnect /\ UNCHANGED <<sweepVars, shutVars, downVars, configVars, scaleVars, staticVars, idleVars, netVars, regVars, stopVars, healthVars, poolVars>>
    \/ RedisEnd /\ UNCHANGED <<sweepVars, shutVars, downVars, configVars, scaleVars, staticVars, idleVars, netVars, regVars, stopVars, healthVars, poolVars>>
    \/ startProxy /\ UNCHANGED <<sweepVars, shutVars, downVars, configVars, scaleVars, staticVars, idleVars, netVars, regVars, stopVars, healthVars, poolVars>>
    \/ ProxyConsoleDone /\ UNCHANGED <<sweepVars, shutVars, downVars, configVars, scaleVars, staticVars, idleVars, netVars, regVars, stopVars, healthVars, poolVars>>
    \/ ProxyExit /\ UNCHANGED <<sweepVars, shutVars, downVars, configVars, scaleVars, staticVars, idleVars, netVars, servers, proc, listening, cpc, ckind, stopVars, healthVars, poolVars>>
    \/ ProxyShutdown /\ UNCHANGED <<sweepVars, shutVars, downVars, configVars, scaleVars, staticVars, idleVars, netVars, servers, proc, listening, cpc, ckind, stopVars, healthVars, poolVars>>

\* register calls through registerServerWithProxy for the handles H
RegisterSteps(H) ==
    \/ \E h \in H : handleServerReady(h)
           /\ UNCHANGED <<sweepVars, shutVars, downVars, configVars, scaleVars, staticVars, idleVars, netVars, servers, proc, listening, cpc, ckind, stopVars, healthVars, poolVars>>
    \/ \E h \in H : RegisterDone(h) /\ UNCHANGED <<sweepVars, shutVars, downVars, configVars, scaleVars, staticVars, idleVars, netVars, regVars, stopVars, healthVars, poolVars>>

\* register calls through registerWithVelocity for the handles H
VelocitySteps(H) ==
    \/ \E h \in H : registerWithVelocity(h) /\ UNCHANGED <<sweepVars, shutVars, downVars, configVars, scaleVars, staticVars, idleVars, netVars, regVars, stopVars, healthVars, poolVars>>
    \/ \E h \in H : VelocityDone(h)
           /\ UNCHANGED <<sweepVars, shutVars, downVars, configVars, scaleVars, staticVars, idleVars, netVars, servers, proc, listening, cpc, ckind, stopVars, healthVars, poolVars>>

ProxyNext == ProxySteps \/ RegisterSteps(Objs) \/ VelocitySteps(Objs)

\* the health checks of the handles H
HealthSteps(H) ==
    \/ \E h \in H : HealthTick(h) /\ UNCHANGED <<sweepVars, shutVars, downVars, configVars, scaleVars, staticVars, idleVars, netVars, regVars, proxyVars, stopVars, poolVars>>
    \/ \E h \in H : HealthProbed(h) /\ UNCHANGED <<sweepVars, shutVars, downVars, configVars, scaleVars, staticVars, idleVars, netVars, regVars, proxyVars, stopVars, poolVars>>

\* the calls of the PoolManager: getWarmServer, handleServerRelease and the
\* addServerToPool of the scaling operations
PoolSteps ==
    \/ \E gameType \in GameTypes : getWarmServer(gameType)
           /\ UNCHANGED <<sweepVars, shutVars, downVars, configVars, scaleVars, staticVars, idleVars, netVars, servers, proc, listening, proxyVars, stopVars, healthVars, relInflight>>
    \/ \E t \in Stoppers, id \in Ids : handleServerRelease(t, id)
           /\ UNCHANGED <<sweepVars, shutVars, downVars, configVars, scaleVars, staticVars, idleVars, netVars, servers, proc, listening, cpc, ckind, healthVars>>
           /\ UNCHANGED <<registeredWithProxy, proxy, connected, regInflight, velInflight, proxyDowns>>
    \/ \E id \in Ids : ReleaseDone(id)
           /\ UNCHANGED <<sweepVars, shutVars, downVars, configVars, scaleVars, staticVars, idleVars, netVars, regVars, proxyVars, stopVars, healthVars>>
    \/ \E h \in Objs : addServerToPool(h)
           /\ UNCHANGED <<sweepVars, shutVars, downVars, configVars, scaleVars, staticVars, idleVars, netVars, proxyVars, stopVars, healthVars, poolVars>>

\* the joins and quits of players of the handles H, and their timers
PlayerSteps(H) ==
    \/ \E h \in H, p \in PlayerNames : handlePlayerJoin(h, p)
           /\ UNCHANGED <<sweepVars, shutVars, downVars, configVars, scaleVars, staticVars, netVars, regVars, proxyVars, stopVars, healthVars, poolVars>>
    \/ \E h \in H, p \in PlayerNames : handlePlayerQuit(h, p)
           /\ UNCHANGED <<sweepVars, shutVars, downVars, configVars, scaleVars, staticVars, netVars, regVars, proxyVars, stopVars, healthVars, poolVars>>
    \/ \E t \in Stoppers, h \in H : EmptyTimeoutFires(t, h)
           /\ UNCHANGED <<sweepVars, shutVars, downVars, configVars, scaleVars, staticVars, netVars, healthVars, poolRest>>

\* the calls and timers of static servers
StaticSteps ==
    \/ \E h \in Objs, name \in StaticNames : startStaticServer(h, name)
           /\ UNCHANGED <<sweepVars, shutVars, downVars, configVars, scaleVars, netVars, proxyVars, stopVars, healthVars, poolVars, idleVars>>
    \/ \E h, g \in Objs : RestartTimerFires(h, g)
           /\ UNCHANGED <<sweepVars, shutVars, downVars, configVars, scaleVars, netVars, proxyVars, stopVars, healthVars, poolVars, idleVars>>
    \/ \E name \in StaticNames : stopStaticServer(name)
           /\ UNCHANGED <<sweepVars, shutVars, downVars, configVars, scaleVars, netVars, proxyVars, stopVars, healthVars, poolVars, idleVars>>

\* the scaling calls of the PoolManager
ScaleSteps ==
    \/ checkAndScale
           /\ UNCHANGED <<sweepVars, shutVars, downVars, configVars, staticVars, idleVars, netVars, proxyVars, stopVars, healthVars, poolVars>>
    \/ checkAndScaleSkipped
           /\ UNCHANGED <<sweepVars, shutVars, downVars, configVars, staticVars, idleVars, netVars, proxyVars, stopVars, healthVars, poolVars>>
    \/ ScaleUpResumes
           /\ UNCHANGED <<sweepVars, shutVars, downVars, configVars, staticVars, idleVars, netVars, proxyVars, stopVars, healthVars, poolVars>>
    \/ scaleToMin
           /\ UNCHANGED <<sweepVars, shutVars, downVars, configVars, staticVars, idleVars, netVars, proxyVars, stopVars, healthVars, poolVars>>
    \/ ScaleToMinResumes
           /\ UNCHANGED <<sweepVars, shutVars, downVars, configVars, staticVars, idleVars, netVars, proxyVars, stopVars, healthVars, poolVars>>

\* checkAndScale applied to a given warm pool
DownSteps ==
    checkAndScaleDown
        /\ UNCHANGED <<sweepVars, shutVars, configVars, scaleVars, staticVars, idleVars, netVars, regVars, proxyVars>>
        /\ UNCHANGED <<stopVars, healthVars, poolVars>>

\* the two signal handlers
ShutdownSteps ==
    \/ Signal /\ UNCHANGED <<sweepVars, downVars, configVars, scaleVars, idleVars, netVars, healthVars, poolRest>>
    \/ CleanupProxyStopped /\ UNCHANGED <<sweepVars, downVars, configVars, scaleVars, idleVars, netVars, healthVars, poolRest>>
    \/ \E t \in Stoppers, id \in Keys : CleanupStops(t, id) /\ UNCHANGED <<sweepVars, downVars, configVars, scaleVars, idleVars, netVars, healthVars, poolRest>>
    \/ CleanupStopReturned /\ UNCHANGED <<sweepVars, downVars, configVars, scaleVars, idleVars, netVars, healthVars, poolRest>>
    \/ CleanupExits /\ UNCHANGED <<sweepVars, downVars, configVars, scaleVars, idleVars, netVars, healthVars, poolRest>>
    \/ ShutdownApiClosed /\ UNCHANGED <<sweepVars, downVars, configVars, scaleVars, idleVars, netVars, healthVars, poolRest>>
    \/ \E t \in Stoppers : ShutdownPoolStops(t) /\ UNCHANGED <<sweepVars, downVars, configVars, scaleVars, idleVars, netVars, healthVars, poolRest>>
    \/ ShutdownPoolStopped /\ UNCHANGED <<sweepVars, downVars, configVars, scaleVars, idleVars, netVars, healthVars, poolRest>>
    \/ ShutdownStopAll /\ UNCHANGED <<sweepVars, downVars, configVars, scaleVars, idleVars, netVars, healthVars, poolRest>>

\* the life of the proxy process, without the message bus
ProxyLifeSteps ==
    \/ startProxy /\ UNCHANGED <<sweepVars, shutVars, downVars, configVars, scaleVars, staticVars, idleVars, netVars, regVars, stopVars, healthVars, poolVars>>
    \/ ProxyConsoleDone /\ UNCHANGED <<sweepVars, shutVars, downVars, configVars, scaleVars, staticVars, idleVars, netVars, regVars, stopVars, healthVars, poolVars>>
    \/ ProxyExit /\ UNCHANGED <<sweepVars, shutVars, downVars, configVars, scaleVars, staticVars, idleVars, netVars, servers, proc, listening, cpc, ckind, stopVars, healthVars, poolVars>>

\* handleServerRequest calls
RequestSteps ==
    \/ \E gameType \in GameTypes : handleServerRequest(gameType)
           /\ UNCHANGED <<sweepVars, shutVars, downVars, configVars, scaleVars, staticVars, idleVars, servers, proc, listening, proxyVars, stopVars, healthVars, relInflight>>
    \/ RequestAssigned
           /\ UNCHANGED <<sweepVars, shutVars, downVars, configVars, scaleVars, staticVars, idleVars, netVars, servers, proc, listening, proxyVars, stopVars, healthVars, relInflight>>

\* getWarmServer calls and the addServerToPool calls that fill the pool
WarmSteps ==
    \/ \E gameType \in GameTypes : getWarmServer(gameType)
           /\ UNCHANGED <<sweepVars, shutVars, downVars, configVars, scaleVars, staticVars, idleVars, netVars, servers, proc, listening, proxyVars, stopVars, healthVars, relInflight>>
    \/ \E h \in Objs : addServerToPool(h)
           /\ UNCHANGED <<sweepVars, shutVars, downVars, configVars, scaleVars, staticVars, idleVars, netVars, proxyVars, stopVars, healthVars, poolVars>>

\* scaleDown calls with and without a count
DownCallSteps ==
    \E count \in {NoCount} \cup (1..MaxDownWarm) : scaleDown(count)
        /\ UNCHANGED <<sweepVars, shutVars, configVars, scaleVars, staticVars, idleVars, netVars, regVars, proxyVars, stopVars, healthVars, poolVars>>

\* the periodic pool check and the scaleToMin it calls
SweepSteps ==
    \/ checkPoolHealth
           /\ UNCHANGED <<shutVars, downVars, configVars, idleVars, netVars, proxyVars, stopVars, healthVars, poolRest>>
    \/ ScaleToMinResumes
           /\ UNCHANGED <<sweepVars, shutVars, downVars, configVars, staticVars, idleVars, netVars, proxyVars, stopVars, healthVars, poolVars>>

\* the messages of the plugins that the PluginBridge handles
BridgeSteps ==
    \E id \in Ids : BridgeServerReady(id)
        /\ UNCHANGED <<sweepVars, shutVars, downVars, configVars, scaleVars, staticVars, idleVars, netVars, proxyVars, stopVars, healthVars, poolVars>>

Next ==
    \/ NetNext \/ CreateNext \/ ProxyNext \/ StopNext \/ HealthSteps(Objs) \/ PoolSteps
    \/ PlayerSteps(Objs) \/ StaticSteps \/ ScaleSteps \/ DownSteps \/ ShutdownSteps \/ RequestSteps \/ DownCallSteps \/ SweepSteps
    \/ BridgeSteps

Spec == Init /\ [][Next]_vars

\* NetworkManager alone, driven by direct callers
SpecNet == Init /\ [][NetNext]_vars

\* the registry: creations and stops of dynamic instances, without a proxy
\* (no instance is registered, no stop awaits an unregister publish)
SpecRegistry == Init /\ [][CreateNext \/ StopSteps]_vars

\* the registry with a port range of one port, which two creations exhaust
SpecOnePort == InitOnePort /\ [][CreateNext \/ StopSteps]_vars

\* the warm pool: pool calls, creations and stops, without a proxy
SpecPool == Init /\ [][PoolSteps \/ CreateSteps(Objs) \/ StopSteps]_vars

\* the shutdown of empty servers: creations, joins and quits, timers, stops
SpecIdle == Init /\ [][CreateSteps(IdleObjs) \/ PlayerSteps(IdleObjs) \/ StopSteps]_vars

\* static servers: their starts, stops and restarts, beside creations and
\* stops of dynamic ones
SpecStatic == Init /\ [][StaticSteps \/ CreateSteps(Objs) \/ StopSteps \/ StopMissSteps]_vars

\* the wait of a stopServer call ends, for the fairness of stops
StopWaits ==
    \E t \in Stoppers : StopWaited(t) /\ UNCHANGED <<sweepVars, shutVars, downVars, configVars, scaleVars, staticVars, idleVars, netVars, healthVars, poolRest>>

\* creations and stops where the wait of stopServer, which ends at the exit
\* of the process or when its 10 s timer fires, is not put off forever
SpecStop ==
    Init /\ [][CreateSteps(StopObjs) \/ StopSteps]_vars /\ WF_vars(StopWaits)

\* scaling of the warm pool: the scaling calls and the creations
SpecScale == Init /\ [][ScaleSteps \/ CreateSteps(Objs)]_vars

\* scaling down: checkAndScale applied to the warm pools of DownPools
SpecScaleDown == InitDown /\ [][DownSteps]_vars

\* the handles of the creations that run beside the signal handlers
ShutObjs == 1..MaxShutObjs

\* what the program does until the manager process exits, with the two
\* signal handlers: creations, stops, static servers, the proxy, the pool
ShutdownNext ==
    \/ Running /\ CreateSteps(ShutObjs)
    \/ Running /\ StopSteps
    \/ Running /\ StaticSteps
    \/ Running /\ ProxyLifeSteps
    \/ Running /\ ScaleSteps
    \/ ShutdownSteps

SpecShutdown == Init /\ [][ShutdownNext]_vars

\* requests for servers: pool hits and misses, beside the creations
SpecRequest == Init /\ [][RequestSteps \/ WarmSteps \/ CreateSteps(Objs) \/ StartSteps(Objs)]_vars

\* scaleDown applied to the warm pools of InitDown
SpecDownCall == InitDown /\ [][DownCallSteps]_vars

\* the periodic pool check, beside pool creations, assignments and stops
SpecSweep == Init /\ [][SweepSteps \/ WarmSteps \/ CreateSteps(Objs) \/ StopSteps]_vars

\* the scaling operations on a pool configured to hold one warm server
SpecOneWarm == InitOneWarm /\ [][ScaleSteps \/ CreateSteps(Objs)]_vars

\* the registry with the ready messages of plugins
SpecBridge == Init /\ [][BridgeSteps \/ CreateSteps(Objs) \/ StopSteps]_vars

\* the registry when random ids repeat: creations and stops
SpecIds == InitRepeats /\ [][CreateNext \/ StopSteps]_vars

\* health checks: creations, checks and stops
SpecHealth == Init /\ [][CreateSteps(HealthObjs) \/ HealthSteps(HealthObjs) \/ StopSteps]_vars

\* registration with the proxy: creations, registrations, proxy restarts, stops
SpecProxy ==
    Init /\ [][CreateSteps(ProxyObjs) \/ ProxySteps \/ RegisterSteps(ProxyObjs) \/ StopNext]_vars

(***************************************************************************)
(* Claims                                                                  *)
(***************************************************************************)
\* the instances that are live: the objects the registry holds
Live == {servers[i] : i \in {j \in Ids : servers[j] # NoObj}}

\* C1: under any interleaving of creations and stops, no two instances that
\* are live at the same time hold the same port.
C1_NoTwoLiveInstancesShareAPort ==
    \A g, h \in Live : g # h => server[g].port # server[h].port

\* C4: a port that allocatePort has returned is not returned by any other
\* allocatePort call, an overlapping one included, until releasePort is
\* called for it.
C4_PortNotReturnedTwiceUntilReleased ==
    \A p \in NetPorts : holders[p] <= 1

\* the order of the steps of a stop
StopOrder == <<"unregister", "terminate", "release", "cleanup">>

IsPrefix(s, t) == Len(s) <= Len(t) /\ SubSeq(t, 1, Len(s)) = s

\* the steps a stop call has completed, without the mark of its throw
StepsDone(t) == SelectSeq(stopLog[t], LAMBDA x : x # "throw")

C8_ProxyDownClearsRegistered ==
    [][proxyDowns' # proxyDowns =>
         \A h \in Objs :
             told[h] => /\ regKey(h) \notin registeredWithProxy'
                        /\ ~server'[h].registeredWithVelocity]_vars

\* C9: a register call made for a ready instance while the proxy is ready
\* again, after a restart that lost the instance's registration, is not
\* skipped as already registered.
C9_RegisterAfterRestartNotSkipped ==
    \A h \in Objs : ~(lost[h] = "back" /\ regOutcome[h] = "skipped")

\* C10: for each instance at most one register message is published between
\* two unregistrations (or proxy restarts), overlapping register calls
\* included.
C10_AtMostOneRegisterMessage ==
    \A h \in Objs : regMsgs[h] <= 1

\* C6: once an instance has failed three health checks in a row, a restart
\* has been performed for it and its failure counter is back below the
\* threshold (reset to 0 by the restart).
C6_ThirdFailureRestartsAndResets ==
    \A h \in Objs : /\ consec[h] >= 3 => restarts[h] >= 1
                    /\ failed[h] < 3

\* C7: restartServer is called only by a check that is at least the third
\* failure in a row, and after a healthy check the failure counter is 0.
C7_NoRestartBelowThreshold ==
    [][\A h \in Objs :
         /\ restartCalls'[h] # restartCalls[h] => consec'[h] >= 3
         /\ consec'[h] = 0 => failed'[h] = 0]_vars

\* two failures in a row have been counted and no restart was called for
C7_Witness ==
    \E h \in Objs : consec[h] = 2 /\ failed[h] = 2 /\ restartCalls[h] = 0 /\ hpc[h] = "idle"

\* C2: no id is in the warm pool and in the reservations at the same time.
C2_WarmAndReservedDisjoint ==
    Range(warmPool) \cap reservedServers = {}

\* the warm instances of a game type that are free to be handed out
Available(gameType) ==
    {i \in Range(warmPool) :
        /\ servers[i] # NoObj
        /\ server[servers[i]].gameType = gameType
        /\ i \notin reservedServers}

\* C3: a getWarmServer call returns null exactly when no warm instance of
\* the game type is free; the instance it returns was warm and not reserved,
\* and is reserved and free for no caller afterwards, so that of N calls for
\* M free instances M get distinct instances and the others null.
C3_WarmServerHandedToOneCaller ==
    [][\A g \in GameTypes :
         getWarmServer(g) =>
             /\ lastGet'.gameType = g
             /\ lastGet'.result = NoId <=> Available(g) = {}
             /\ lastGet'.result # NoId =>
                  /\ lastGet'.result \in Available(g)
                  /\ lastGet'.result \in reservedServers'
                  /\ lastGet'.result \notin Range(warmPool')
                  /\ Available(g)' = Available(g) \ {lastGet'.result}]_vars

\* a call got null for a game type of which an instance is handed out
C3_Witness ==
    /\ lastGet.result = NoId
    /\ \E i \in reservedServers :
         /\ servers[i] # NoObj
         /\ server[servers[i]].gameType = lastGet.gameType
         /\ i \notin Range(warmPool)

\* C11: the regKey of an instance enters registeredWithProxy only when a
\* register message for the instance has gone out since the proxy last
\* forgot it: a register call whose publish did not go out (bus not
\* connected, publish failed) leaves the instance unregistered.
C11_RegisteredOnlyIfPublished ==
    [][\A h \in Objs :
         (regKey(h) \notin registeredWithProxy /\ regKey(h) \in registeredWithProxy')
             => regMsgs[h] >= 1]_vars

\* C12: an instance has at most one empty-server timer pending (a new
\* emptying of the player set sets the timer anew), and when the timer of an
\* instance of the registry fires while its player set is empty, a
\* stopDynamicServer call for the instance begins.
C12_EmptyTimerStopsIdleInstance ==
    /\ [](\A h \in Objs : pending[h] <= 1)
    /\ [][\A h \in Objs :
            (pending'[h] < pending[h] /\ players[h] = {} /\ servers[server[h].id] = h)
                => \E t \in Stoppers :
                      stopPc[t] = "idle" /\ stopPc'[t] # "idle" /\ stopObj'[t] = h]_vars

\* the timer of an instance that stayed empty has fired and the stop it
\* began awaits the exit of the process
C12_Witness ==
    \E h \in Objs, t \in Stoppers :
        /\ idleStopped[h] /\ ~joined[h] /\ pending[h] = 0 /\ players[h] = {}
        /\ stopObj[t] = h /\ stopPc[t] = "waitExit"

\* C13: an empty-server timer calls stopDynamicServer only for an instance
\* without players that no player has joined since the timer was set.
C13_JoinCancelsIdleShutdown ==
    [][\A h \in Objs :
         (idleStopped'[h] /\ ~idleStopped[h]) => (players[h] = {} /\ ~joined[h])]_vars

\* a player joined while the timer was pending; the timer has fired and has
\* not stopped the instance
C13_Witness ==
    \E h \in Objs :
        /\ joined[h] /\ players[h] # {}
        /\ emptyTimeout[h] /\ pending[h] = 0
        /\ ~idleStopped[h]
        /\ servers[server[h].id] = h

\* C14: once a creation call has failed, the registry holds no entry for
\* the id the call drew, and the port the call took is not left allocated
\* in the NetworkManager.
C14_FailedCreationRolledBack ==
    \A h \in Objs :
        cpc[h] = "failed" =>
            /\ \A i \in Ids : servers[i] # h
            /\ server[h].port \notin allocatedPorts

\* a creation call of h fails in this step for want of a port
NoPortFailure(h) ==
    /\ cpc'[h] = "failed"
    /\ \/ cpc[h] = "idle" /\ server'[h].id # NoId /\ server'[h].port = NoPort
       \/ cpc[h] = "port" /\ allocPort[CallerOf(h)] = NoPort

\* C15: a createDynamicServer call goes on only if a port of the range is
\* free of every registry entry; a creation that fails for want of a port
\* leaves the registry and the allocated ports as they were and its server
\* without a port; and allocatePort adds a port only in the step in which
\* it returns that port, so a call that returns null has added none.
C15_NoPortLeavesNoTrace ==
    [][/\ \A h \in Objs :
            (cpc[h] = "idle" /\ cpc'[h] = "construct")
                => \E p \in RegPorts : \A i \in Ids :
                       servers[i] # NoObj => server[servers[i]].port # p
       /\ \A h \in Objs :
            NoPortFailure(h) => /\ servers' = servers
                                /\ allocatedPorts' = allocatedPorts
                                /\ server'[h].port = NoPort
       /\ allocatedPorts' \ allocatedPorts \subseteq
            {allocPort'[c] : c \in {d \in Callers :
                                      allocPc[d] = "probe" /\ allocPc'[d] = "returned"}}]_vars

\* a createDynamicServer call has failed for want of a port while another
\* instance holds the port of the range
C15_Witness ==
    \E g, h \in Objs :
        /\ cpc[h] = "failed" /\ ckind[h] # "start"
        /\ server[h].id # NoId /\ server[h].port = NoPort
        /\ servers[server[g].id] = g /\ server[g].port \in RegPorts

\* every variable a stop call that does not find its id could have changed
BesideStopCalls ==
    <<netVars, regVars, proxyVars, stopVars, healthVars, poolVars, idleVars,
      staticServers, restartTimer, crashSeen>>

\* C16: a stop call for an id that is not in the registry fails as not found
\* and changes nothing (no message, no signal, no port released, no map
\* entry changed), and a stop call that acts is one for an instance the
\* map of dynamic instances holds
C16_StopOfUnknownIdChangesNothing ==
    [][/\ \A i \in Keys :
            (stopCalls'[i] = "notFound" /\ stopCalls[i] # "notFound")
                => UNCHANGED BesideStopCalls
       /\ \A t \in Stoppers :
            (stopPc[t] = "idle" /\ stopPc'[t] # "idle")
                => \E i \in Ids : servers[i] = stopObj'[t]]_vars

\* both stop calls have failed as not found while an instance is running
C16_Witness ==
    /\ \E i \in Ids : stopCalls[i] = "notFound" /\ servers[i] = NoObj
    /\ \E n \in StaticNames : stopCalls[n] = "notFound" /\ staticServers[n] = NoObj
    /\ \E h \in Objs : proc[h] = "running" /\ listening[h]

\* C17: a stopStaticServer call for a running static instance begins its
\* termination: the instance is stopping when the call reaches its first
\* wait (its process then exits or is killed, and the entry is removed)
C17_StopStaticTerminates ==
    [][\A n \in StaticNames :
         (/\ stopCalls'[n] = "found" /\ stopCalls[n] # "found"
          /\ staticServers[n] # NoObj
          /\ proc[staticServers[n]] = "running")
            => server'[staticServers[n]].status = "stopping"]_vars

\* C18: when the restart timer of a crashed static instance fires, the
\* startStaticServer it calls is accepted: the name is not held by
\* staticServers any more, so that a new start of the instance begins
C18_CrashedStaticRestarted ==
    [][\A h \in Objs :
         restartTimer'[h] < restartTimer[h] => staticServers[server[h].id] = NoObj]_vars

\* C19: no serverCrash is emitted, and no automatic restart is scheduled,
\* at the exit of a process that an explicit stop request is stopping or has
\* killed
C19_RequestedExitIsNoCrash ==
    [][\A h \in Objs :
         ((crashSeen'[h] /\ ~crashSeen[h]) \/ restartTimer'[h] > restartTimer[h])
            => ~(proc[h] = "killed" \/ server[h].status = "stopping")]_vars

\* the statuses of the specification, and the status of a server object that
\* createServer has not built yet
SpecStatuses == {"none", "created", "starting", "ready", "stopping", "stopped", "crashed"}

\* the changes of status of the specification
SpecTransitions ==
    {<<"none", "created">>, <<"created", "starting">>, <<"starting", "ready">>,
     <<"ready", "stopping">>, <<"stopping", "stopped">>, <<"starting", "crashed">>,
     <<"ready", "crashed">>, <<"crashed", "stopped">>, <<"stopped", "starting">>}

\* C20: the status of every instance is one of created, starting, ready,
\* stopping, stopped, crashed, and it changes only along created -> starting
\* -> ready -> stopping -> stopped, starting|ready -> crashed -> stopped, or by
\* a restart from stopped to starting
C20_StatusFollowsLifecycle ==
    /\ [](\A h \in Objs : server[h].status \in SpecStatuses)
    /\ [][\A h \in Objs :
            server'[h].status # server[h].status
                => <<server[h].status, server'[h].status>> \in SpecTransitions]_vars

\* C21: a console line that matches the startup-complete pattern changes the
\* status of an instance to ready only while the instance is starting (the
\* status StartedStatus, which startServer sets on a ready instance, set aside)
C21_ReadyOnlyFromStarting ==
    [][\A h \in Objs :
         (server'[h].status = "ready" /\ server[h].status \notin {"ready", StartedStatus})
            => server[h].status = "starting"]_vars

\* C22: when createDynamicServer has started an instance while the proxy is
\* ready and the message bus connected, a register call for the instance is
\* under way or the instance is registered with the proxy
C22_CreatedInstanceRegistered ==
    [][\A h \in Objs :
         (/\ cpc[h] = "waitReady" /\ cpc'[h] = "done"
          /\ RollsBack(h)
          /\ proxy = "ready" /\ connected)
            => (regInflight'[h] > 0 \/ regKey(h) \in registeredWithProxy')]_vars

\* C23: a stopServer call that waits for the exit of the process does not
\* wait forever, and when stopServer reaches the end of its "Clean up" the
\* instance has status stopped, no process handle, and no process that is
\* still running
C23_StopServerTerminatesStopped ==
    /\ \A t \in Stoppers : (stopPc[t] = "waitExit") ~> (stopPc[t] = "stopped")
    /\ [][\A t \in Stoppers :
            (stopPc[t] # "stopped" /\ stopPc'[t] = "stopped")
                => /\ server'[stopSrv'[t]].status = "stopped"
                   /\ ~server'[stopSrv'[t]].process
                   /\ proc'[stopSrv'[t]] # "running"]_vars

\* a stopServer call has ended after its timer killed a process that did not
\* exit on the stop command
C23_Witness ==
    \E t \in Stoppers :
        /\ stopPc[t] = "stopped"
        /\ proc[stopSrv[t]] = "killed"
        /\ server[stopSrv[t]].status = "stopped"

\* C24: checkAndScale is single-flight: the flag is set exactly while a call
\* is in flight (so it is cleared when the call ends, also after a failure),
\* a call that finds the flag set creates and removes nothing, and a call
\* starts a creation only when it found the flag clear
C24_CheckAndScaleSingleFlight ==
    /\ [](scaling <=> cas.pc # "idle")
    /\ [][/\ (cas'.skipped /\ ~cas.skipped)
                => UNCHANGED <<regVars, warmPool, reservedServers, scaling, stopVars>>
          /\ (cas.pc = "idle" /\ cas'.pc # "idle") => (~scaling /\ scaling')]_vars

\* a checkAndScale call has ended after a creation of its loop failed, the
\* flag is clear again, and a call made in between was skipped
C24_Witness ==
    /\ cas.skipped
    /\ cas.pc = "idle" /\ cas.result = "scaled-up"
    /\ cas.added < cas.needed
    /\ ~scaling

\* no pool instance has left the warm pool through the exit of its process
NoPoolExit == \A h \in Objs : ckind[h] = "pool" => proc[h] # "exited"

\* C25: a scaleToMin call that began with c warm instances, below the
\* minimum m, and whose creations all succeeded has created exactly m - c
\* instances when it ends, and the warm pool then holds m (no pool process
\* having exited meanwhile); after a creation that fails the loop goes on
\* with the creations that are left
C25_ScaleToMinCreatesMissing ==
    [][/\ (stm.pc = "run" /\ stm'.pc = "idle" /\ stm'.failed = 0)
            => /\ stm'.made = PoolMinServers - stm'.warm
               /\ NoPoolExit' /\ ~scaling /\ cas.result = "none"
                    => Len(warmPool') = PoolMinServers
       /\ (stm'.failed > stm.failed /\ stm.left > 0)
            => (stm'.pc = "run" /\ stm'.left = stm.left - 1)]_vars

\* scaleToMin has ended after it began with an empty warm pool and created
\* two instances, which are in the warm pool
C25_Witness ==
    /\ stm.pc = "idle" /\ stm.warm = 0 /\ stm.made = 2 /\ stm.failed = 0
    /\ Len(warmPool) = 2

\* C26: a checkAndScale call that finds the warm pool with w instances, below
\* the minimum m, sets out to add exactly m - w instances
C26_CheckAndScaleAddsMissing ==
    [][(cas.pc = "idle" /\ cas'.pc = "up")
            => cas'.needed = PoolMinWarm - Len(warmPool)]_vars

\* ceil(n * 0.3)
CeilThreeTenths(n) == (3 * n + 9) \div 10

\* C27: checkAndScale applied to a warm pool of w instances, above the
\* maximum, removes no reserved instance, and with no instance reserved it
\* removes ceil((w - max) * 0.3) instances
C27_ScaleDownByThreeTenths ==
    (downDone /\ Len(downPool) > PoolMaxWarm)
        => /\ \A k \in downRemoved : ~downPool[k]
           /\ (\A k \in 1..Len(downPool) : ~downPool[k])
                => Cardinality(downRemoved) = CeilThreeTenths(Len(downPool) - PoolMaxWarm)


\* no process of a backend instance, dynamic or static, is running
NoBackendRuns == \A h \in Objs : proc[h] # "running"

\* C28: after a SIGINT or SIGTERM the stop of the proxy begins only when no
\* backend instance runs any more, and the manager process exits only when
\* no backend instance runs and the proxy is gone.
C28_InstancesThenProxyThenExit ==
    [][/\ (sd.cleanup # "proxy" /\ sd'.cleanup = "proxy") => NoBackendRuns
       /\ (Running /\ ~Running') => (NoBackendRuns' /\ proxy' = "null")]_vars


\* C29: handleServerRelease for a reserved dynamic instance that a start
\* has left started, whose process runs, without players and with room in
\* the warm pool, removes the reservation and resets the instance for its
\* return to the warm pool; it does not stop it.
C29_ReleasedIdleInstanceReturned ==
    [][\A id \in Ids :
         LET h == servers[id]
         IN  (/\ id \in reservedServers
              /\ id \notin reservedServers'
              /\ h # NoObj
              /\ server[h].type = "dynamic"
              /\ server[h].status = StartedStatus
              /\ proc[h] = "running" /\ proc'[h] = "running"
              /\ players[h] = {}
              /\ Len(warmPool) < PoolMaxWarm)
             => (relInflight'[id] > relInflight[id] /\ UNCHANGED stopVars)]_vars


\* C30: a start whose wait ends without a startup line seen, the process
\* alive, succeeds and leaves the instance ready; a start that fails at the
\* wait leaves the instance neither ready nor running.
C30_StartAfterWait ==
    [][\A h \in Objs :
         /\ (cpc[h] = "waitReady" /\ cpc'[h] = "done" /\ server[h].status = "starting")
                => server'[h].status = "ready"
         /\ (cpc[h] = "waitReady" /\ cpc'[h] = "failed")
                => server'[h].status \notin {"ready", "running"}]_vars


\* C31: a call that has assigned a warm instance, getWarmServer by itself
\* or handleServerRequest on a pool hit, has started exactly one
\* addServerToPool call for its replacement when it returns.
C31_OneReplacementPerAssignment ==
    [][(lastGet' # lastGet /\ ~lastGet'.req /\ lastGet'.result # NoId)
          => lastGet'.started = 1]_vars


\* the port p is with an allocatePort call that has not returned it yet, with
\* a creation in flight, or with a registry entry whose instance has not
\* stopped
PortOfLive(p) ==
    \E h \in Objs :
        \/ allocPc[CallerOf(h)] # "idle" /\ allocPort[CallerOf(h)] = p
        \/ /\ server[h].port = p
           /\ \/ cpc[h] \in {"construct", "spawn", "waitReady"}
              \/ servers[server[h].id] = h /\ server[h].status # "stopped"

\* C32: every port recorded as allocated, in NetworkManager or by an entry
\* of the registry, belongs to a live instance.
C32_AllocatedPortsBelongToLive ==
    /\ \A p \in allocatedPorts : PortOfLive(p)
    /\ \A p \in UsedPorts : PortOfLive(p)


C34_SweepRemovesUnhealthy ==
    [][sweep'.n > sweep.n =>
          /\ \A id \in sweep'.unhealthy : id \notin Range(warmPool')
          /\ Len(warmPool') < PoolMinServers => stm'.pc = "run"]_vars


\* C35 (violated): instance ids are unique among live instances: a creation
\* never replaces the registry entry of another instance that is still there,
\* and no two registered creations carry the same id
C35_LiveIdsUnique ==
    [][\A i \in Ids : (servers[i] # NoObj /\ servers'[i] # NoObj) => servers'[i] = servers[i]]_vars


\* a stopDynamicServer call for the instance of handle h is running, or has
\* ended and removed the stopped instance from the registry
StopBegunFor(h) ==
    \/ \E t \in Stoppers : stopObj[t] = h /\ stopPc[t] # "idle"
    \/ /\ server[h].status = "stopped"
       /\ server[h].id # NoId
       /\ servers[server[h].id] # h

\* C36 (violated): once a stop has begun for an instance, a health check
\* changes neither its failure counter nor calls restartServer for it, and
\* once stopServer has set the status stopped no health-check timer of the
\* instance is armed
C36_StoppedInstanceIgnoresChecks ==
    [][\A h \in Objs : StopBegunFor(h) =>
         /\ failed'[h] = failed[h]
         /\ restartCalls'[h] = restartCalls[h]
         /\ server'[h].status = "stopped" => hpc'[h] = "off"]_vars

\* C37 (violated): every id in reservedServers refers to an instance that
\* is present in the registry
C37_ReservedAreRegistered ==
    \A id \in Ids : id \in reservedServers => servers[id] # NoObj


\* C38 (violated): an instance whose status is ready has a process handle
C38_ReadyHasProcess ==
    \A h \in Objs : server[h].status = "ready" => server[h].process


\* C39 (violated): no instance is recorded as registered with the proxy
\* after its stop has completed: when stopDynamicServer returns, the regKey
\* of the instance is not in registeredWithProxy, and a register call adds
\* no regKey for a created instance that a stop has removed from the
\* registry
C39_StoppedInstanceNotRegistered ==
    [][/\ \A t \in Stoppers :
            (stopPc[t] = "cleanup" /\ stopPc'[t] = "idle")
                => regKey(stopObj[t]) \notin registeredWithProxy'
       /\ \A h \in Objs :
            (/\ regKey(h) \in registeredWithProxy'
             /\ regKey(h) \notin registeredWithProxy
             /\ cpc[h] = "done")
                => servers'[server[h].id] = h]_vars

\* C40 (violated): the warm pool never holds more instances than the
\* configured maximum (pool.maxServers, the limit of scaleUp; pool.maxWarm
\* is not above it)
C40_WarmPoolWithinMaximum ==
    Len(warmPool) <= PoolMaxServers

====
